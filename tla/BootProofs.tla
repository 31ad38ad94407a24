------------------------------ MODULE BootProofs ------------------------------
(***************************************************************************)
(* What the start-up and the migration of extensions promise, for every    *)
(* number of processes, phone numbers and legacy rows, however often       *)
(* containers are killed: Upgraded and OneTime.                            *)
(***************************************************************************)
EXTENDS Boot, FiniteSetTheorems, WellFoundedInduction, TLAPS

----------------------------------------------------------------------------
(* The inductive invariant. *)

OldDesk(r) == [digits |-> OldKey[r].digits, line |-> OldKey[r].line, number |-> 0, sip |-> "digits"]

Desk == [digits : {0} \cup {OldKey[r].digits : r \in Rows},
         line : {0} \cup {OldKey[r].line : r \in Rows},
         number : {0} \cup Numbers, sip : {"digits", "own"}]

BootTypes ==
    /\ pc \in [Workers -> Steps]
    /\ schema \in [columns : BOOLEAN, key : {"digits", "none", "id"}, unique : BOOLEAN]
    /\ flags \subseteq {"recording", "elastic", "identity", "bootstrap"}
    /\ retried \in Nat /\ edits \in Nat
    /\ ext \in [Rows -> Desk]
    /\ plan \in [Workers -> [Rows -> {0} \cup Numbers]]

AfterAlter     == Steps \ {"down", "schema", "alter"}
AfterSettings  == AfterAlter \ {"recording", "settings"}
AfterKey       == AfterSettings \ {"lock", "key"}
AfterWrite     == AfterKey \ {"read", "write"}
AfterNames     == AfterWrite \ {"names"}
AfterBootstrap == {"adopt", "up"}

\* What a process is past is done, for every process.
BootSoFar ==
    \A w \in Workers :
        /\ pc[w] \in AfterAlter => schema.columns
        /\ pc[w] \in AfterSettings => {"recording", "elastic"} \subseteq flags
        /\ pc[w] \in AfterKey => schema.key = "id" /\ schema.unique
        /\ pc[w] \in AfterWrite => "identity" \in flags
        /\ pc[w] \in AfterNames => \A r \in Rows : ext[r].sip = "own"
        /\ pc[w] \in AfterBootstrap => "bootstrap" \in flags

OneMigrates ==
    \A w, v \in Workers : pc[w] \in MigrationHeld /\ pc[v] \in MigrationHeld => w = v

\* Until the identities are written the tables are those of the old release,
\* and what the one process that migrates has decided is right for them.
Untouched ==
    "identity" \notin flags =>
        /\ ext = [r \in Rows |-> OldDesk(r)]
        /\ link = [n \in Numbers |-> Bare(OldLink[n])]
        /\ moved = {}

SameDigits(r, q) == OldKey[q].digits = OldKey[r].digits

PlanRight(to) ==
    /\ \A r \in Rows : OldKey[r].line \in Numbers => to[r] = OldKey[r].line
    /\ \A r \in Rows : OldKey[r].line \notin Numbers => to[r] \in {0} \cup LinesFor(r)
    /\ \A r \in Rows : RowOwner[r] # 0 /\ to[r] = 0 =>
           \A n \in LinesFor(r) : \E q \in Rows \ {r} : SameDigits(r, q) /\ to[q] = n
    /\ \A r, q \in Rows : r # q /\ to[r] # 0 /\ SameDigits(r, q) => to[r] # to[q]

PlansRight ==
    \A w \in Workers : pc[w] = "write" => "identity" \notin flags /\ PlanRight(plan[w])

\* Afterwards every row is the desk it was, or was moved or deleted since.
Kept(r) ==
    /\ ext[r].digits = OldKey[r].digits
    /\ r \notin moved /\ OldKey[r].line \in Numbers => ext[r].number = OldKey[r].line
    /\ r \notin moved /\ OldKey[r].line \notin Numbers => ext[r].number \in {0} \cup LinesFor(r)
    /\ r \in moved => NumberOwner[ext[r].number] = RowOwner[r]
    /\ r \notin moved /\ RowOwner[r] # 0 /\ ext[r].number = 0 =>
           \A n \in LinesFor(r) : \E q \in Rows \ {r} :
               SameDigits(r, q) /\ (ext[q].number = n \/ ext[q] = Gone \/ q \in moved)

OneDeskEach ==
    \A r, q \in Rows : r # q /\ ext[r].number # 0 /\ ext[r].digits = ext[q].digits =>
        ext[r].number # ext[q].number

DesksRight ==
    "identity" \in flags => OneDeskEach /\ \A r \in Rows : ext[r] # Gone => Kept(r)

\* The one-time steps leave their flag in the transaction that takes them.
FlagsTell ==
    /\ retried <= 1 /\ ("elastic" \notin flags => retried = 0)
    /\ seeds # "none" => "bootstrap" \in flags

BootInv ==
    BootTypes /\ BootSoFar /\ OneMigrates /\ Untouched /\ PlansRight /\ DesksRight /\ FlagsTell

----------------------------------------------------------------------------
(* Numbers are compared by their ids: a set of them has a lowest one. *)

\* No prover here does induction over data; a least counterexample serves.
LEMMA Least ==
    ASSUME NEW S, S \subseteq Nat, S # {}
    PROVE  \E n \in S : \A m \in S : n <= m
  <1> DEFINE R == OpToRel(<, Nat)
  <1>1. IsWellFoundedOn(R, Nat)
    BY NatLessThanWellFounded
  <1>2. \A x, y \in Nat : y < x => <<y, x>> \in R
    BY DEF OpToRel
  <1> HIDE DEF R
  <1>3. PICK x \in S : \A y \in S : <<y, x>> \notin R
    BY <1>1, WFMin
  <1>4. ASSUME NEW y \in S PROVE x <= y
    <2>1. ~ (y < x)
      BY <1>2, <1>3
    <2> QED
      BY <2>1
  <1> QED
    BY <1>4

LEMMA LowestIn ==
    ASSUME NEW S, S \subseteq Nat, S # {}
    PROVE  Lowest(S) \in S
  BY Least DEF Lowest

LEMMA MainIsOwn ==
    ASSUME NEW o
    PROVE  \/ MainNumber(o) = 0
           \/ MainNumber(o) \in Numbers /\ NumberOwner[MainNumber(o)] = o
  <1> DEFINE own == {n \in Numbers : NumberOwner[n] = o}
  <1>1. own \subseteq Nat
    BY BootAssumption DEF BootAssumption
  <1>2. CASE own \cap Main # {}
    <2>1. Lowest(own \cap Main) \in own \cap Main
      BY <1>1, <1>2, LowestIn
    <2> QED
      BY <1>2, <2>1 DEF MainNumber
  <1>3. CASE own # {} /\ own \cap Main = {}
    <2>1. Lowest(own) \in own
      BY <1>1, <1>3, LowestIn
    <2> QED
      BY <1>3, <2>1 DEF MainNumber
  <1> QED
    BY <1>2, <1>3 DEF MainNumber

----------------------------------------------------------------------------
(* The plan: what the rows have chosen after k of them, in a database that *)
(* the migration has not written yet.                                      *)

Before ==
    /\ ext = [r \in Rows |-> OldDesk(r)]
    /\ link = [n \in Numbers |-> Bare(OldLink[n])]

PlacesRight(place, k) ==
    /\ place \in [Rows -> {0} \cup Numbers]
    /\ \A r \in Rows : OldKey[r].line \in Numbers => place[r] = OldKey[r].line
    /\ \A r \in Rows : OldKey[r].line \notin Numbers =>
           place[r] \in {0} \cup LinesFor(r) /\ (r > k => place[r] = 0)
    /\ \A r \in Rows : r <= k /\ RowOwner[r] # 0 /\ place[r] = 0 =>
           \A n \in LinesFor(r) : \E q \in Rows \ {r} : SameDigits(r, q) /\ place[q] = n
    /\ \A r, q \in Rows : r # q /\ place[r] # 0 /\ SameDigits(r, q) => place[r] # place[q]

\* One row's choice: none, because none is due or none is free; or a free line.
LEMMA OneChoice ==
    ASSUME Before, NEW k \in Rows, NEW place \in [Rows -> {0} \cup Numbers]
    PROVE  \/ /\ Chosen(place, k) = place
              /\ \/ OldKey[k].line \in Numbers \/ RowOwner[k] = 0
                 \/ \A n \in LinesFor(k) : \E q \in Rows : SameDigits(k, q) /\ place[q] = n
           \/ /\ OldKey[k].line \notin Numbers
              /\ \E n \in LinesFor(k) :
                    /\ Chosen(place, k) = [place EXCEPT ![k] = n]
                    /\ \A q \in Rows : SameDigits(k, q) => place[q] # n
  <1> DEFINE free(n)  == n # 0 /\ \A q \in Rows : <<place[q], ext[q].digits>> # <<n, ext[k].digits>>
             links    == {n \in Linked(k) : free(n)}
             choices  == IF links # {} THEN links ELSE {n \in {MainNumber(RowOwner[k])} : free(n)}
  <1>1. Chosen(place, k) = IF Named(k) # 0 \/ RowOwner[k] = 0 \/ choices = {} THEN place
                           ELSE [place EXCEPT ![k] = Lowest(choices)]
    BY DEF Chosen
  <1>2. Named(k) # 0 <=> OldKey[k].line \in Numbers
    BY BootAssumption DEF BootAssumption, Before, OldDesk, Named
  <1>3. \A n : free(n) <=> n # 0 /\ \A q \in Rows : SameDigits(k, q) => place[q] # n
    BY DEF Before, OldDesk, SameDigits
  <1>4. Linked(k) = {n \in Numbers : NumberOwner[n] = RowOwner[k] /\ OldLink[n] = OldKey[k].digits}
    BY DEF Linked, Before, OldDesk, Bare
  <1>5. choices \subseteq LinesFor(k) /\ choices \subseteq {n \in LinesFor(k) : free(n)}
    BY <1>4, MainIsOwn DEF LinesFor
  <1>6. choices = {} => \A n \in LinesFor(k) : ~ free(n)
    BY <1>4 DEF LinesFor
  <1>7. choices # {} => Lowest(choices) \in choices
    <2>1. LinesFor(k) \subseteq Nat
      BY BootAssumption DEF BootAssumption, LinesFor
    <2> HIDE DEF choices
    <2> QED
      BY <1>5, <2>1, LowestIn
  <1>8. \A n \in LinesFor(k) : n # 0
    BY BootAssumption DEF BootAssumption, LinesFor
  <1> HIDE DEF free, choices
  <1> QED
    BY <1>1, <1>2, <1>3, <1>5, <1>6, <1>7, <1>8

LEMMA PlacesAtFirst ==
    ASSUME Before
    PROVE  PlacesRight([r \in Rows |-> Named(r)], 0)
  <1> DEFINE place == [r \in Rows |-> Named(r)]
  <1>1. \A r \in Rows : place[r] = IF OldKey[r].line \in Numbers THEN OldKey[r].line ELSE 0
    BY DEF Before, OldDesk, Named
  <1>2. 0 \notin Numbers /\ \A r \in Rows : r \in Nat /\ r > 0
    BY BootAssumption, FS_CardinalityType DEF BootAssumption
  <1>3. place \in [Rows -> {0} \cup Numbers]
    BY <1>1
  <1>4. ASSUME NEW r \in Rows, NEW q \in Rows, r # q, place[r] # 0, SameDigits(r, q)
        PROVE  place[r] # place[q]
    <2>1. SUFFICES ASSUME place[r] = place[q] PROVE FALSE
      OBVIOUS
    <2>2. OldKey[r].line = OldKey[q].line
      BY <1>1, <1>2, <1>4, <2>1
    <2>3. OldKey[r] = OldKey[q]
      BY <1>4, <2>2, BootAssumption DEF BootAssumption, SameDigits
    <2> QED
      BY <1>4, <2>3, BootAssumption DEF BootAssumption
  <1> SUFFICES PlacesRight(place, 0)
    OBVIOUS
  <1> HIDE DEF place
  <1> QED
    BY <1>1, <1>2, <1>3, <1>4 DEF PlacesRight

LEMMA PlacesGoOn ==
    ASSUME Before, NEW k \in Rows, NEW place, PlacesRight(place, k - 1)
    PROVE  PlacesRight(Chosen(place, k), k)
  <1>1. place \in [Rows -> {0} \cup Numbers] /\ \A r \in Rows : r \in Nat
    BY BootAssumption, FS_CardinalityType DEF BootAssumption, PlacesRight
  <1>2. \A r \in Rows : (r <= k <=> r = k \/ r <= k - 1) /\ (r > k => r > k - 1) /\ k > k - 1
    BY <1>1
  <1>3. 0 \notin Numbers
    BY BootAssumption DEF BootAssumption
  <1>a. CASE /\ Chosen(place, k) = place
            /\ \/ OldKey[k].line \in Numbers \/ RowOwner[k] = 0
               \/ \A n \in LinesFor(k) : \E q \in Rows : SameDigits(k, q) /\ place[q] = n
    <2>1. ASSUME RowOwner[k] # 0, place[k] = 0, NEW n \in LinesFor(k)
          PROVE  \E q \in Rows \ {k} : SameDigits(k, q) /\ place[q] = n
      <3>1. n \in Numbers
        BY DEF LinesFor
      <3>2. OldKey[k].line \notin Numbers
        BY <1>3, <2>1 DEF PlacesRight
      <3> QED
        BY <1>a, <1>3, <2>1, <3>1, <3>2
    <2> QED
      BY <1>a, <1>2, <2>1 DEF PlacesRight
  <1>b. CASE /\ OldKey[k].line \notin Numbers
            /\ \E n \in LinesFor(k) :
                  /\ Chosen(place, k) = [place EXCEPT ![k] = n]
                  /\ \A q \in Rows : SameDigits(k, q) => place[q] # n
    <2>1. PICK n \in LinesFor(k) : /\ Chosen(place, k) = [place EXCEPT ![k] = n]
                                   /\ \A q \in Rows : SameDigits(k, q) => place[q] # n
      BY <1>b
    <2> DEFINE to == Chosen(place, k)
    <2>2. n \in Numbers /\ n # 0
      BY <1>3 DEF LinesFor
    <2>3. place[k] = 0
      BY <1>b, <1>2 DEF PlacesRight
    <2>4. to \in [Rows -> {0} \cup Numbers] /\ to[k] = n /\ \A q \in Rows \ {k} : to[q] = place[q]
      BY <1>1, <2>1, <2>2
    <2>5. \A r, q : SameDigits(r, q) <=> SameDigits(q, r)
      BY DEF SameDigits
    <2> HIDE DEF to
    <2>6. ASSUME NEW r \in Rows, r <= k, RowOwner[r] # 0, to[r] = 0, NEW m \in LinesFor(r)
          PROVE  \E q \in Rows \ {r} : SameDigits(r, q) /\ to[q] = m
      <3>1. r # k /\ place[r] = 0 /\ r <= k - 1
        BY <1>2, <2>2, <2>4, <2>6
      <3>2. PICK q \in Rows \ {r} : SameDigits(r, q) /\ place[q] = m
        BY <2>6, <3>1 DEF PlacesRight
      <3>3. m # 0
        BY <1>3 DEF LinesFor
      <3> QED
        BY <2>3, <2>4, <3>2, <3>3
    <2>7. ASSUME NEW r \in Rows, NEW q \in Rows, r # q, to[r] # 0, SameDigits(r, q)
          PROVE  to[r] # to[q]
      <3>1. CASE r = k
        BY <2>1, <2>4, <2>7, <3>1
      <3>2. CASE q = k
        BY <2>1, <2>4, <2>5, <2>7, <3>2
      <3>3. CASE r # k /\ q # k
        BY <2>4, <2>7, <3>3 DEF PlacesRight
      <3> QED
        BY <3>1, <3>2, <3>3
    <2>8. \A r \in Rows : OldKey[r].line \in Numbers => to[r] = OldKey[r].line
      BY <1>b, <2>4 DEF PlacesRight
    <2>9. \A r \in Rows : OldKey[r].line \notin Numbers => to[r] \in {0} \cup LinesFor(r)
      BY <2>4 DEF PlacesRight
    <2>10. \A r \in Rows : OldKey[r].line \notin Numbers /\ r > k => to[r] = 0
      BY <1>1, <1>2, <2>4 DEF PlacesRight
    <2> QED
      BY <2>4, <2>6, <2>7, <2>8, <2>9, <2>10 DEF PlacesRight, to
  <1> QED
    BY <1>1, <1>a, <1>b, OneChoice

\* The recursive function is defined: there is one up to every k.
LEMMA PlanUpToDefined ==
    ASSUME NEW c \in Nat, NEW first
    PROVE  \E f : f = [k \in 0 .. c |-> IF k = 0 THEN first ELSE Chosen(f[k - 1], k)]
  <1> DEFINE Is(f, n) == f = [k \in 0 .. n |-> IF k = 0 THEN first ELSE Chosen(f[k - 1], k)]
             Missing  == {n \in Nat : ~ \E f : Is(f, n)}
  <1>1. SUFFICES ASSUME Missing # {} PROVE FALSE
    OBVIOUS
  <1>2. PICK n \in Missing : \A m \in Missing : n <= m
    <2> HIDE DEF Is
    <2> QED
      BY <1>1, Least
  <1>3. CASE n = 0
    <2> DEFINE f == [k \in 0 .. 0 |-> first]
    <2>1. \A k \in 0 .. 0 : f[k] = IF k = 0 THEN first ELSE Chosen(f[k - 1], k)
      OBVIOUS
    <2>2. Is(f, 0)
      BY <2>1
    <2> QED
      BY <1>3, <2>2
  <1>4. CASE n # 0
    <2>1. n \in Nat /\ n - 1 \in Nat /\ n - 1 \notin Missing
      BY <1>2, <1>4
    <2>2. PICK f : Is(f, n - 1)
      BY <2>1
    <2>3. \A k \in 0 .. n - 1 : f[k] = IF k = 0 THEN first ELSE Chosen(f[k - 1], k)
      BY <2>2
    <2> DEFINE g == [k \in 0 .. n |-> IF k = n THEN Chosen(f[n - 1], n) ELSE f[k]]
    <2>4. ASSUME NEW k \in 0 .. n PROVE g[k] = IF k = 0 THEN first ELSE Chosen(g[k - 1], k)
      <3>1. CASE k = n
        <4>1. g[n] = Chosen(f[n - 1], n) /\ g[n - 1] = f[n - 1]
          BY <2>1
        <4> QED
          BY <1>4, <3>1, <4>1
      <3>2. CASE k # n /\ k # 0
        <4>1. g[k] = f[k] /\ g[k - 1] = f[k - 1] /\ k \in 0 .. n - 1
          BY <2>1, <3>2
        <4> QED
          BY <2>3, <3>2, <4>1
      <3>3. CASE k # n /\ k = 0
        BY <2>1, <2>3, <3>3
      <3> QED
        BY <3>1, <3>2, <3>3
    <2>5. Is(g, n)
      BY <2>4
    <2> QED
      BY <1>2, <2>5
  <1> QED
    BY <1>3, <1>4

LEMMA PlanIsRight ==
    ASSUME Before
    PROVE  Plan \in [Rows -> {0} \cup Numbers] /\ PlanRight(Plan)
  <1> DEFINE c == Cardinality(Rows)
             first == [r \in Rows |-> Named(r)]
  <1>1. c \in Nat /\ Rows = 1 .. c
    BY BootAssumption, FS_CardinalityType DEF BootAssumption
  <1>2. PlanUpTo = [k \in 0 .. c |-> IF k = 0 THEN first ELSE Chosen(PlanUpTo[k - 1], k)]
    <2> DEFINE Is(f) == f = [k \in 0 .. c |-> IF k = 0 THEN first ELSE Chosen(f[k - 1], k)]
    <2>1. \E f : Is(f)
      BY <1>1, PlanUpToDefined
    <2>2. PlanUpTo = CHOOSE f : Is(f)
      BY DEF PlanUpTo
    <2> SUFFICES Is(PlanUpTo)
      OBVIOUS
    <2> HIDE DEF Is
    <2> QED
      BY <2>1, <2>2
  <1>3. \A k \in 0 .. c : PlanUpTo[k] = IF k = 0 THEN first ELSE Chosen(PlanUpTo[k - 1], k)
    BY <1>2
  <1> DEFINE Wrong == {k \in 0 .. c : ~ PlacesRight(PlanUpTo[k], k)}
  <1>4. Wrong = {}
    <2>1. SUFFICES ASSUME Wrong # {} PROVE FALSE
      OBVIOUS
    <2>2. PICK k \in Wrong : \A m \in Wrong : k <= m
      <3>1. Wrong \subseteq Nat
        BY <1>1
      <3> HIDE DEF Wrong
      <3> QED
        BY <2>1, <3>1, Least
    <2>3. k # 0
      BY <1>1, <1>3, PlacesAtFirst
    <2>4. k \in Rows /\ k - 1 \in 0 .. c /\ k - 1 \notin Wrong
      BY <1>1, <2>2, <2>3
    <2>5. PlacesRight(PlanUpTo[k - 1], k - 1)
      BY <2>4
    <2>6. PlacesRight(Chosen(PlanUpTo[k - 1], k), k)
      BY <2>4, <2>5, PlacesGoOn
    <2> QED
      BY <1>3, <2>2, <2>3, <2>6
  <1>5. PlacesRight(PlanUpTo[c], c)
    BY <1>1, <1>4
  <1>6. \A r \in Rows : r <= c
    BY <1>1
  <1> QED
    BY <1>5, <1>6 DEF Plan, PlacesRight, PlanRight

----------------------------------------------------------------------------
(* Every step keeps the invariant: one lemma per part, one step per action. *)

LEMMA BootStarts == Init => BootInv
  <1> SUFFICES ASSUME Init PROVE BootInv
    OBVIOUS
  <1>1. \A r \in Rows : OldDesk(r) \in Desk
    BY DEF OldDesk, Desk
  <1>2. BootTypes
    BY <1>1 DEF Init, BootTypes, OldDesk, NoPlan, Steps
  <1>3. BootSoFar /\ OneMigrates /\ PlansRight
    BY DEF Init, BootSoFar, OneMigrates, PlansRight, AfterAlter, AfterSettings, AfterKey, AfterWrite,
           AfterNames, AfterBootstrap, MigrationHeld
  <1>4. Untouched /\ DesksRight /\ FlagsTell
    BY DEF Init, Untouched, OldDesk, DesksRight, FlagsTell
  <1> QED
    BY <1>2, <1>3, <1>4 DEF BootInv

\* Placing the rows changes their number and the part of the key it replaces.
LEMMA PlacedKeeps ==
    ASSUME BootTypes, NEW to \in [Rows -> {0} \cup Numbers]
    PROVE  /\ Placed(to) \in [Rows -> Desk]
           /\ \A r \in Rows :
                /\ Placed(to)[r].sip = ext[r].sip /\ Placed(to)[r].digits = ext[r].digits
                /\ ext[r] # Gone => Placed(to)[r].number = to[r]
                /\ ext[r] = Gone => Placed(to)[r] = Gone
  <1> SUFFICES ASSUME NEW r \in Rows
               PROVE  /\ Placed(to)[r] \in Desk
                      /\ Placed(to)[r].sip = ext[r].sip /\ Placed(to)[r].digits = ext[r].digits
                      /\ ext[r] # Gone => Placed(to)[r].number = to[r]
                      /\ ext[r] = Gone => Placed(to)[r] = Gone
    BY DEF Placed
  <1>1. ext[r] \in Desk
    BY DEF BootTypes
  <1>2. Placed(to)[r] = IF ext[r] = Gone THEN Gone ELSE [ext[r] EXCEPT !.line = 0, !.number = to[r]]
    BY DEF Placed
  <1>3. CASE ext[r] = Gone
    BY <1>1, <1>2, <1>3
  <1>4. CASE ext[r] # Gone
    BY <1>1, <1>2, <1>4 DEF Desk
  <1> QED
    BY <1>3, <1>4

LEMMA OneMigratesKept ==
    ASSUME BootTypes, OneMigrates, [Next]_vars
    PROVE  OneMigrates'
  <1> USE DEF BootTypes, OneMigrates, MigrationHeld, Steps, seed, data, people, mind, limits
  <1>1. ASSUME NEW w \in Workers, Start(w) PROVE OneMigrates'
    BY <1>1 DEF Start, Goes
  <1>2. ASSUME NEW w \in Workers, InspectColumns(w) PROVE OneMigrates'
    BY <1>2 DEF InspectColumns, Goes, Sees
  <1>3. ASSUME NEW w \in Workers, AlterTables(w) PROVE OneMigrates'
    BY <1>3 DEF AlterTables, Goes, Sees, Falls
  <1>4. ASSUME NEW w \in Workers, ReadRecording(w) PROVE OneMigrates'
    BY <1>4 DEF ReadRecording, Goes, Sees
  <1>5. ASSUME NEW w \in Workers, WriteSettings(w) PROVE OneMigrates'
    BY <1>5 DEF WriteSettings, Goes, Sees, Retries
  <1>6. ASSUME NEW w \in Workers, TakeLock(w) PROVE OneMigrates'
    BY <1>6 DEF TakeLock, Goes, MigrationFree
  <1>7. ASSUME NEW w \in Workers, AlterKey(w) PROVE OneMigrates'
    BY <1>7 DEF AlterKey, Goes, NextKey
  <1>8. ASSUME NEW w \in Workers, ReadIdentity(w) PROVE OneMigrates'
    BY <1>8 DEF ReadIdentity, Goes
  <1>9. ASSUME NEW w \in Workers, WriteIdentity(w) PROVE OneMigrates'
    BY <1>9 DEF WriteIdentity, Goes, Placed
  <1>10. ASSUME NEW w \in Workers, NormaliseNames(w) PROVE OneMigrates'
    BY <1>10 DEF NormaliseNames, Goes
  <1>11. ASSUME NEW w \in Workers, FirstAdmin(w) PROVE OneMigrates'
    BY <1>11 DEF FirstAdmin, Goes, Sees, Falls
  <1>12. ASSUME NEW w \in Workers, Bootstrap(w) PROVE OneMigrates'
    BY <1>12 DEF Bootstrap, Goes, Sees, Falls
  <1>13. ASSUME NEW w \in Workers, AdoptMailboxes(w) PROVE OneMigrates'
    BY <1>13 DEF AdoptMailboxes, Goes
  <1>14. ASSUME NEW w \in Workers, LockTimesOut(w) PROVE OneMigrates'
    BY <1>14 DEF LockTimesOut, Falls
  <1>15. ASSUME NEW w \in Workers, Crash(w) PROVE OneMigrates'
    BY <1>15 DEF Crash, Falls
  <1>16. ASSUME NEW r \in Rows, DeleteRow(r) PROVE OneMigrates'
    BY <1>16 DEF DeleteRow, Edit
  <1>17. ASSUME NEW r \in Rows, NEW n \in Numbers, MoveRow(r, n) PROVE OneMigrates'
    BY <1>17 DEF MoveRow, Edit
  <1>18. CASE DropSeed
    BY <1>18 DEF DropSeed, Edit
  <1>19. CASE ChooseRecording
    BY <1>19 DEF ChooseRecording, Edit
  <1>20. CASE UNCHANGED vars
    BY <1>20 DEF vars
  <1> QED
    BY <1>1, <1>2, <1>3, <1>4, <1>5, <1>6, <1>7, <1>8, <1>9, <1>10,
       <1>11, <1>12, <1>13, <1>14, <1>15, <1>16, <1>17, <1>18, <1>19, <1>20
       DEF Next, Booting, Requests

LEMMA SoFarKept ==
    ASSUME BootTypes, BootSoFar, [Next]_vars
    PROVE  BootSoFar'
  <1> USE DEF BootTypes, BootSoFar, Steps, AfterAlter, AfterSettings, AfterKey, AfterWrite, AfterNames, AfterBootstrap, seed, data, people, mind, limits
  <1>1. ASSUME NEW w \in Workers, Start(w) PROVE BootSoFar'
    BY <1>1 DEF Start, Goes
  <1>2. ASSUME NEW w \in Workers, InspectColumns(w) PROVE BootSoFar'
    BY <1>2 DEF InspectColumns, Goes, Sees
  <1>3. ASSUME NEW w \in Workers, AlterTables(w) PROVE BootSoFar'
    BY <1>3 DEF AlterTables, Goes, Sees, Falls
  <1>4. ASSUME NEW w \in Workers, ReadRecording(w) PROVE BootSoFar'
    BY <1>4 DEF ReadRecording, Goes, Sees
  <1>5. ASSUME NEW w \in Workers, WriteSettings(w) PROVE BootSoFar'
    BY <1>5 DEF WriteSettings, Goes, Sees, Retries
  <1>6. ASSUME NEW w \in Workers, TakeLock(w) PROVE BootSoFar'
    BY <1>6 DEF TakeLock, Goes
  <1>7. ASSUME NEW w \in Workers, AlterKey(w) PROVE BootSoFar'
    BY <1>7 DEF AlterKey, Goes, NextKey
  <1>8. ASSUME NEW w \in Workers, ReadIdentity(w) PROVE BootSoFar'
    BY <1>8 DEF ReadIdentity, Goes
  <1>9. ASSUME NEW w \in Workers, WriteIdentity(w) PROVE BootSoFar'
    <2>1. \A r \in Rows : ext'[r].sip = ext[r].sip
      BY <1>9, PlacedKeeps DEF WriteIdentity
    <2>2. pc' = [pc EXCEPT ![w] = "names"] /\ pc[w] = "write" /\ flags' = flags \cup {"identity"} /\ schema' = schema
      BY <1>9 DEF WriteIdentity, Goes
    <2> QED
      BY <2>1, <2>2
  <1>10. ASSUME NEW w \in Workers, NormaliseNames(w) PROVE BootSoFar'
    <2>1. \A r \in Rows : ext'[r].sip = "own"
      BY <1>10 DEF NormaliseNames, Desk
    <2>2. pc' = [pc EXCEPT ![w] = "admin"] /\ pc[w] = "names" /\ flags' = flags /\ schema' = schema
      BY <1>10 DEF NormaliseNames, Goes
    <2> QED
      BY <2>1, <2>2
  <1>11. ASSUME NEW w \in Workers, FirstAdmin(w) PROVE BootSoFar'
    BY <1>11 DEF FirstAdmin, Goes, Sees, Falls
  <1>12. ASSUME NEW w \in Workers, Bootstrap(w) PROVE BootSoFar'
    BY <1>12 DEF Bootstrap, Goes, Sees, Falls
  <1>13. ASSUME NEW w \in Workers, AdoptMailboxes(w) PROVE BootSoFar'
    BY <1>13 DEF AdoptMailboxes, Goes
  <1>14. ASSUME NEW w \in Workers, LockTimesOut(w) PROVE BootSoFar'
    BY <1>14 DEF LockTimesOut, Falls
  <1>15. ASSUME NEW w \in Workers, Crash(w) PROVE BootSoFar'
    BY <1>15 DEF Crash, Falls
  <1>16. ASSUME NEW r \in Rows, DeleteRow(r) PROVE BootSoFar'
    BY <1>16 DEF DeleteRow, Edit, Gone
  <1>17. ASSUME NEW r \in Rows, NEW n \in Numbers, MoveRow(r, n) PROVE BootSoFar'
    BY <1>17 DEF MoveRow, Edit
  <1>18. CASE DropSeed
    BY <1>18 DEF DropSeed, Edit
  <1>19. CASE ChooseRecording
    BY <1>19 DEF ChooseRecording, Edit
  <1>20. CASE UNCHANGED vars
    BY <1>20 DEF vars
  <1> QED
    BY <1>1, <1>2, <1>3, <1>4, <1>5, <1>6, <1>7, <1>8, <1>9, <1>10,
       <1>11, <1>12, <1>13, <1>14, <1>15, <1>16, <1>17, <1>18, <1>19, <1>20
       DEF Next, Booting, Requests

LEMMA FlagsTellKept ==
    ASSUME BootTypes, FlagsTell, [Next]_vars
    PROVE  FlagsTell'
  <1> USE DEF BootTypes, FlagsTell, seed, data, people, mind, limits
  <1>1. ASSUME NEW w \in Workers, Start(w) PROVE FlagsTell'
    BY <1>1 DEF Start, Goes
  <1>2. ASSUME NEW w \in Workers, InspectColumns(w) PROVE FlagsTell'
    BY <1>2 DEF InspectColumns, Goes, Sees
  <1>3. ASSUME NEW w \in Workers, AlterTables(w) PROVE FlagsTell'
    BY <1>3 DEF AlterTables, Goes, Sees, Falls
  <1>4. ASSUME NEW w \in Workers, ReadRecording(w) PROVE FlagsTell'
    BY <1>4 DEF ReadRecording, Goes, Sees
  <1>5. ASSUME NEW w \in Workers, WriteSettings(w) PROVE FlagsTell'
    BY <1>5 DEF WriteSettings, Goes, Sees, Retries
  <1>6. ASSUME NEW w \in Workers, TakeLock(w) PROVE FlagsTell'
    BY <1>6 DEF TakeLock, Goes
  <1>7. ASSUME NEW w \in Workers, AlterKey(w) PROVE FlagsTell'
    BY <1>7 DEF AlterKey, Goes, NextKey
  <1>8. ASSUME NEW w \in Workers, ReadIdentity(w) PROVE FlagsTell'
    BY <1>8 DEF ReadIdentity, Goes
  <1>9. ASSUME NEW w \in Workers, WriteIdentity(w) PROVE FlagsTell'
    BY <1>9 DEF WriteIdentity, Goes, Placed
  <1>10. ASSUME NEW w \in Workers, NormaliseNames(w) PROVE FlagsTell'
    BY <1>10 DEF NormaliseNames, Goes
  <1>11. ASSUME NEW w \in Workers, FirstAdmin(w) PROVE FlagsTell'
    BY <1>11 DEF FirstAdmin, Goes, Sees, Falls
  <1>12. ASSUME NEW w \in Workers, Bootstrap(w) PROVE FlagsTell'
    BY <1>12 DEF Bootstrap, Goes, Sees, Falls
  <1>13. ASSUME NEW w \in Workers, AdoptMailboxes(w) PROVE FlagsTell'
    BY <1>13 DEF AdoptMailboxes, Goes
  <1>14. ASSUME NEW w \in Workers, LockTimesOut(w) PROVE FlagsTell'
    BY <1>14 DEF LockTimesOut, Falls
  <1>15. ASSUME NEW w \in Workers, Crash(w) PROVE FlagsTell'
    BY <1>15 DEF Crash, Falls
  <1>16. ASSUME NEW r \in Rows, DeleteRow(r) PROVE FlagsTell'
    BY <1>16 DEF DeleteRow, Edit
  <1>17. ASSUME NEW r \in Rows, NEW n \in Numbers, MoveRow(r, n) PROVE FlagsTell'
    BY <1>17 DEF MoveRow, Edit
  <1>18. CASE DropSeed
    BY <1>18 DEF DropSeed, Edit
  <1>19. CASE ChooseRecording
    BY <1>19 DEF ChooseRecording, Edit
  <1>20. CASE UNCHANGED vars
    BY <1>20 DEF vars
  <1> QED
    BY <1>1, <1>2, <1>3, <1>4, <1>5, <1>6, <1>7, <1>8, <1>9, <1>10,
       <1>11, <1>12, <1>13, <1>14, <1>15, <1>16, <1>17, <1>18, <1>19, <1>20
       DEF Next, Booting, Requests

LEMMA FallsTypes ==
    ASSUME BootTypes, NEW w \in Workers, Falls(w)
    PROVE  pc' \in [Workers -> Steps] /\ plan' \in [Workers -> [Rows -> {0} \cup Numbers]]
  BY DEF BootTypes, Falls, NoPlan, Steps

LEMMA TypesKept ==
    ASSUME BootTypes, Untouched, [Next]_vars
    PROVE  BootTypes'
  <1> USE DEF BootTypes, Steps, seed, data, people, mind, limits
  <1>1. ASSUME NEW w \in Workers, Start(w) PROVE BootTypes'
    BY <1>1 DEF Start, Goes
  <1>2. ASSUME NEW w \in Workers, InspectColumns(w) PROVE BootTypes'
    BY <1>2 DEF InspectColumns, Goes, Sees
  <1>3. ASSUME NEW w \in Workers, AlterTables(w) PROVE BootTypes'
    <2>1. CASE seen[w] = "missing" /\ schema.columns
      BY <1>3, <2>1, FallsTypes DEF AlterTables
    <2>2. CASE ~ (seen[w] = "missing" /\ schema.columns)
      BY <1>3, <2>2 DEF AlterTables, Goes, Sees
    <2> QED
      BY <2>1, <2>2
  <1>4. ASSUME NEW w \in Workers, ReadRecording(w) PROVE BootTypes'
    BY <1>4 DEF ReadRecording, Goes, Sees
  <1>5. ASSUME NEW w \in Workers, WriteSettings(w) PROVE BootTypes'
    BY <1>5 DEF WriteSettings, Goes, Sees, Retries
  <1>6. ASSUME NEW w \in Workers, TakeLock(w) PROVE BootTypes'
    BY <1>6 DEF TakeLock, Goes
  <1>7. ASSUME NEW w \in Workers, AlterKey(w) PROVE BootTypes'
    BY <1>7 DEF AlterKey, Goes, NextKey
  <1>8. ASSUME NEW w \in Workers, ReadIdentity(w) PROVE BootTypes'
    <2>1. CASE "identity" \in flags
      BY <1>8, <2>1 DEF ReadIdentity, Goes
    <2>2. CASE "identity" \notin flags
      <3>1. Plan \in [Rows -> {0} \cup Numbers]
        BY <2>2, PlanIsRight DEF Untouched, Before
      <3> QED
        BY <1>8, <2>2, <3>1 DEF ReadIdentity, Goes
    <2> QED
      BY <2>1, <2>2
  <1>9. ASSUME NEW w \in Workers, WriteIdentity(w) PROVE BootTypes'
    <2>1. Placed(plan[w]) \in [Rows -> Desk]
      BY PlacedKeeps
    <2>2. NoPlan \in [Rows -> {0} \cup Numbers]
      BY DEF NoPlan
    <2> QED
      BY <1>9, <2>1, <2>2 DEF WriteIdentity, Goes
  <1>10. ASSUME NEW w \in Workers, NormaliseNames(w) PROVE BootTypes'
    <2>1. \A r \in Rows : [ext[r] EXCEPT !.sip = "own"] \in Desk
      BY DEF Desk
    <2> QED
      BY <1>10, <2>1 DEF NormaliseNames, Goes
  <1>11. ASSUME NEW w \in Workers, FirstAdmin(w) PROVE BootTypes'
    BY <1>11 DEF FirstAdmin, Goes, Sees, Falls, NoPlan
  <1>12. ASSUME NEW w \in Workers, Bootstrap(w) PROVE BootTypes'
    <2>1. CASE seen[w] = "nothing" /\ "bootstrap" \notin flags
      BY <1>12, <2>1 DEF Bootstrap, Sees
    <2>2. CASE seen[w] = "none" /\ "bootstrap" \in flags
      BY <1>12, <2>2, FallsTypes DEF Bootstrap
    <2>3. CASE ~ (seen[w] = "nothing" /\ "bootstrap" \notin flags) /\ ~ (seen[w] = "none" /\ "bootstrap" \in flags)
      BY <1>12, <2>3 DEF Bootstrap, Goes, Sees
    <2> QED
      BY <2>1, <2>2, <2>3
  <1>13. ASSUME NEW w \in Workers, AdoptMailboxes(w) PROVE BootTypes'
    BY <1>13 DEF AdoptMailboxes, Goes
  <1>14. ASSUME NEW w \in Workers, LockTimesOut(w) PROVE BootTypes'
    BY <1>14 DEF LockTimesOut, Falls, NoPlan
  <1>15. ASSUME NEW w \in Workers, Crash(w) PROVE BootTypes'
    BY <1>15 DEF Crash, Falls, NoPlan
  <1>16. ASSUME NEW r \in Rows, DeleteRow(r) PROVE BootTypes'
    <2>1. Gone \in Desk
      BY DEF Gone, Desk
    <2> QED
      BY <1>16, <2>1 DEF DeleteRow, Edit
  <1>17. ASSUME NEW r \in Rows, NEW n \in Numbers, MoveRow(r, n) PROVE BootTypes'
    <2>1. [ext[r] EXCEPT !.number = n] \in Desk
      BY DEF Desk
    <2> QED
      BY <1>17, <2>1 DEF MoveRow, Edit
  <1>18. CASE DropSeed
    BY <1>18 DEF DropSeed, Edit
  <1>19. CASE ChooseRecording
    BY <1>19 DEF ChooseRecording, Edit
  <1>20. CASE UNCHANGED vars
    BY <1>20 DEF vars
  <1> QED
    BY <1>1, <1>2, <1>3, <1>4, <1>5, <1>6, <1>7, <1>8, <1>9, <1>10,
       <1>11, <1>12, <1>13, <1>14, <1>15, <1>16, <1>17, <1>18, <1>19, <1>20
       DEF Next, Booting, Requests

LEMMA UntouchedKept ==
    ASSUME BootTypes, BootSoFar, Untouched, [Next]_vars
    PROVE  Untouched'
  <1> USE DEF Untouched, seed, data, people, mind, limits
  <1>1. ASSUME NEW w \in Workers, Start(w) PROVE Untouched'
    BY <1>1 DEF Start, Goes
  <1>2. ASSUME NEW w \in Workers, InspectColumns(w) PROVE Untouched'
    BY <1>2 DEF InspectColumns, Goes, Sees
  <1>3. ASSUME NEW w \in Workers, AlterTables(w) PROVE Untouched'
    BY <1>3 DEF AlterTables, Goes, Sees, Falls
  <1>4. ASSUME NEW w \in Workers, ReadRecording(w) PROVE Untouched'
    BY <1>4 DEF ReadRecording, Goes, Sees
  <1>5. ASSUME NEW w \in Workers, WriteSettings(w) PROVE Untouched'
    BY <1>5 DEF WriteSettings, Goes, Sees, Retries
  <1>6. ASSUME NEW w \in Workers, TakeLock(w) PROVE Untouched'
    BY <1>6 DEF TakeLock, Goes
  <1>7. ASSUME NEW w \in Workers, AlterKey(w) PROVE Untouched'
    BY <1>7 DEF AlterKey, Goes, NextKey
  <1>8. ASSUME NEW w \in Workers, ReadIdentity(w) PROVE Untouched'
    BY <1>8 DEF ReadIdentity, Goes
  <1>9. ASSUME NEW w \in Workers, WriteIdentity(w) PROVE Untouched'
    BY <1>9 DEF WriteIdentity, Goes, Placed
  <1>10. ASSUME NEW w \in Workers, NormaliseNames(w) PROVE Untouched'
    BY <1>10 DEF NormaliseNames, Goes, BootSoFar, AfterWrite, AfterKey, AfterSettings, AfterAlter, Steps
  <1>11. ASSUME NEW w \in Workers, FirstAdmin(w) PROVE Untouched'
    BY <1>11 DEF FirstAdmin, Goes, Sees, Falls
  <1>12. ASSUME NEW w \in Workers, Bootstrap(w) PROVE Untouched'
    BY <1>12 DEF Bootstrap, Goes, Sees, Falls
  <1>13. ASSUME NEW w \in Workers, AdoptMailboxes(w) PROVE Untouched'
    BY <1>13 DEF AdoptMailboxes, Goes
  <1>14. ASSUME NEW w \in Workers, LockTimesOut(w) PROVE Untouched'
    BY <1>14 DEF LockTimesOut, Falls
  <1>15. ASSUME NEW w \in Workers, Crash(w) PROVE Untouched'
    BY <1>15 DEF Crash, Falls
  <1>16. ASSUME NEW r \in Rows, DeleteRow(r) PROVE Untouched'
    BY <1>16 DEF DeleteRow, Edit, Served, BootSoFar, AfterWrite, AfterKey, AfterSettings, AfterAlter, Steps
  <1>17. ASSUME NEW r \in Rows, NEW n \in Numbers, MoveRow(r, n) PROVE Untouched'
    BY <1>17 DEF MoveRow, Edit, Served, BootSoFar, AfterWrite, AfterKey, AfterSettings, AfterAlter, Steps
  <1>18. CASE DropSeed
    BY <1>18 DEF DropSeed, Edit
  <1>19. CASE ChooseRecording
    BY <1>19 DEF ChooseRecording, Edit
  <1>20. CASE UNCHANGED vars
    BY <1>20 DEF vars
  <1> QED
    BY <1>1, <1>2, <1>3, <1>4, <1>5, <1>6, <1>7, <1>8, <1>9, <1>10,
       <1>11, <1>12, <1>13, <1>14, <1>15, <1>16, <1>17, <1>18, <1>19, <1>20
       DEF Next, Booting, Requests

LEMMA PlansRightKept ==
    ASSUME BootTypes, BootSoFar, OneMigrates, Untouched, PlansRight, [Next]_vars
    PROVE  PlansRight'
  <1> USE DEF BootTypes, PlansRight, seed, data, people, mind, limits
  <1>1. ASSUME NEW w \in Workers, Start(w) PROVE PlansRight'
    BY <1>1 DEF Start, Goes
  <1>2. ASSUME NEW w \in Workers, InspectColumns(w) PROVE PlansRight'
    BY <1>2 DEF InspectColumns, Goes, Sees
  <1>3. ASSUME NEW w \in Workers, AlterTables(w) PROVE PlansRight'
    BY <1>3 DEF AlterTables, Goes, Sees, Falls
  <1>4. ASSUME NEW w \in Workers, ReadRecording(w) PROVE PlansRight'
    BY <1>4 DEF ReadRecording, Goes, Sees
  <1>5. ASSUME NEW w \in Workers, WriteSettings(w) PROVE PlansRight'
    BY <1>5 DEF WriteSettings, Goes, Sees, Retries
  <1>6. ASSUME NEW w \in Workers, TakeLock(w) PROVE PlansRight'
    BY <1>6 DEF TakeLock, Goes
  <1>7. ASSUME NEW w \in Workers, AlterKey(w) PROVE PlansRight'
    BY <1>7 DEF AlterKey, Goes, NextKey
  <1>8. ASSUME NEW w \in Workers, ReadIdentity(w) PROVE PlansRight'
    <2>1. CASE "identity" \in flags
      BY <1>8, <2>1 DEF ReadIdentity, Goes
    <2>2. CASE "identity" \notin flags
      <3>1. PlanRight(Plan)
        BY <2>2, PlanIsRight DEF Untouched, Before
      <3> HIDE DEF PlanRight
      <3> QED
        BY <1>8, <2>2, <3>1 DEF ReadIdentity, Goes
    <2> QED
      BY <2>1, <2>2
  <1>9. ASSUME NEW w \in Workers, WriteIdentity(w) PROVE PlansRight'
    BY <1>9 DEF WriteIdentity, Goes, Placed, OneMigrates, MigrationHeld
  <1>10. ASSUME NEW w \in Workers, NormaliseNames(w) PROVE PlansRight'
    BY <1>10 DEF NormaliseNames, Goes, BootSoFar, AfterWrite, AfterKey, AfterSettings, AfterAlter, Steps
  <1>11. ASSUME NEW w \in Workers, FirstAdmin(w) PROVE PlansRight'
    BY <1>11 DEF FirstAdmin, Goes, Sees, Falls
  <1>12. ASSUME NEW w \in Workers, Bootstrap(w) PROVE PlansRight'
    BY <1>12 DEF Bootstrap, Goes, Sees, Falls
  <1>13. ASSUME NEW w \in Workers, AdoptMailboxes(w) PROVE PlansRight'
    BY <1>13 DEF AdoptMailboxes, Goes
  <1>14. ASSUME NEW w \in Workers, LockTimesOut(w) PROVE PlansRight'
    BY <1>14 DEF LockTimesOut, Falls
  <1>15. ASSUME NEW w \in Workers, Crash(w) PROVE PlansRight'
    BY <1>15 DEF Crash, Falls
  <1>16. ASSUME NEW r \in Rows, DeleteRow(r) PROVE PlansRight'
    BY <1>16 DEF DeleteRow, Edit
  <1>17. ASSUME NEW r \in Rows, NEW n \in Numbers, MoveRow(r, n) PROVE PlansRight'
    BY <1>17 DEF MoveRow, Edit
  <1>18. CASE DropSeed
    BY <1>18 DEF DropSeed, Edit
  <1>19. CASE ChooseRecording
    BY <1>19 DEF ChooseRecording, Edit
  <1>20. CASE UNCHANGED vars
    BY <1>20 DEF vars
  <1> QED
    BY <1>1, <1>2, <1>3, <1>4, <1>5, <1>6, <1>7, <1>8, <1>9, <1>10,
       <1>11, <1>12, <1>13, <1>14, <1>15, <1>16, <1>17, <1>18, <1>19, <1>20
       DEF Next, Booting, Requests

\* Nothing is to be shown of a step that leaves the rows alone.
LEMMA SameRows ==
    ASSUME DesksRight, UNCHANGED <<ext, moved>>, "identity" \in flags' => "identity" \in flags
    PROVE  DesksRight'
  BY DEF DesksRight, OneDeskEach, Kept

LEMMA DesksRightKept ==
    ASSUME BootTypes, BootSoFar, Untouched, PlansRight, DesksRight, [Next]_vars
    PROVE  DesksRight'
  <1> USE DEF seed, data, people, mind, limits
  <1>1. ASSUME NEW w \in Workers, Start(w) PROVE DesksRight'
    BY <1>1, SameRows DEF Start, Goes
  <1>2. ASSUME NEW w \in Workers, InspectColumns(w) PROVE DesksRight'
    BY <1>2, SameRows DEF InspectColumns, Goes, Sees
  <1>3. ASSUME NEW w \in Workers, AlterTables(w) PROVE DesksRight'
    BY <1>3, SameRows DEF AlterTables, Goes, Sees, Falls
  <1>4. ASSUME NEW w \in Workers, ReadRecording(w) PROVE DesksRight'
    BY <1>4, SameRows DEF ReadRecording, Goes, Sees
  <1>5. ASSUME NEW w \in Workers, WriteSettings(w) PROVE DesksRight'
    BY <1>5, SameRows DEF WriteSettings, Goes, Sees, Retries
  <1>6. ASSUME NEW w \in Workers, TakeLock(w) PROVE DesksRight'
    BY <1>6, SameRows DEF TakeLock, Goes
  <1>7. ASSUME NEW w \in Workers, AlterKey(w) PROVE DesksRight'
    BY <1>7, SameRows DEF AlterKey, Goes, NextKey
  <1>8. ASSUME NEW w \in Workers, ReadIdentity(w) PROVE DesksRight'
    BY <1>8, SameRows DEF ReadIdentity, Goes
  <1>9. ASSUME NEW w \in Workers, WriteIdentity(w) PROVE DesksRight'
    <2> DEFINE to == plan[w]
    <2>1. to \in [Rows -> {0} \cup Numbers] /\ PlanRight(to) /\ "identity" \notin flags /\ ext' = Placed(to)
      BY <1>9 DEF WriteIdentity, Goes, PlansRight, BootTypes
    <2>2. moved' = {} /\ \A r \in Rows : ext[r].digits = OldKey[r].digits /\ ext[r] # Gone
      BY <1>9, <2>1 DEF WriteIdentity, Untouched, OldDesk, Gone
    <2> HIDE DEF to
    <2>3. \A r \in Rows : ext'[r].digits = OldKey[r].digits /\ ext'[r].number = to[r]
      BY <2>1, <2>2, PlacedKeeps
    <2>4. ASSUME NEW r \in Rows PROVE Kept(r)'
      BY <2>1, <2>2, <2>3 DEF Kept, PlanRight
    <2>5. OneDeskEach'
      BY <2>1, <2>3 DEF OneDeskEach, PlanRight, SameDigits
    <2> QED
      BY <2>4, <2>5 DEF DesksRight
  <1>10. ASSUME NEW w \in Workers, NormaliseNames(w) PROVE DesksRight'
    <2>1. "identity" \in flags /\ moved' = moved
      BY <1>10 DEF NormaliseNames, Goes, BootSoFar, AfterWrite, AfterKey, AfterSettings, AfterAlter, Steps
    <2>2. \A r \in Rows : ext[r] \in Desk /\ ext'[r] = [ext[r] EXCEPT !.sip = "own"]
      BY <1>10 DEF NormaliseNames, BootTypes
    <2>3. \A r \in Rows : ext'[r].digits = ext[r].digits /\ ext'[r].number = ext[r].number
      BY <2>2 DEF Desk
    <2>4. \A r \in Rows : ext[r] = Gone => ext'[r] = Gone
      BY <2>2 DEF Gone
    <2>5. OneDeskEach'
      BY <2>1, <2>3 DEF DesksRight, OneDeskEach
    <2>6. ASSUME NEW r \in Rows, ext'[r] # Gone PROVE Kept(r)'
      <3>1. Kept(r)
        BY <2>1, <2>4, <2>6 DEF DesksRight
      <3> QED
        BY <2>1, <2>3, <2>4, <3>1 DEF Kept
    <2> QED
      BY <2>5, <2>6 DEF DesksRight
  <1>11. ASSUME NEW w \in Workers, FirstAdmin(w) PROVE DesksRight'
    BY <1>11, SameRows DEF FirstAdmin, Goes, Sees, Falls
  <1>12. ASSUME NEW w \in Workers, Bootstrap(w) PROVE DesksRight'
    BY <1>12, SameRows DEF Bootstrap, Goes, Sees, Falls
  <1>13. ASSUME NEW w \in Workers, AdoptMailboxes(w) PROVE DesksRight'
    BY <1>13, SameRows DEF AdoptMailboxes, Goes
  <1>14. ASSUME NEW w \in Workers, LockTimesOut(w) PROVE DesksRight'
    BY <1>14, SameRows DEF LockTimesOut, Falls
  <1>15. ASSUME NEW w \in Workers, Crash(w) PROVE DesksRight'
    BY <1>15, SameRows DEF Crash, Falls
  <1>16. ASSUME NEW r \in Rows, DeleteRow(r) PROVE DesksRight'
    <2>1. "identity" \in flags /\ moved' = moved
      BY <1>16 DEF DeleteRow, Edit, Served, BootSoFar, AfterWrite, AfterKey, AfterSettings, AfterAlter, Steps
    <2>2. ext'[r] = Gone /\ \A q \in Rows \ {r} : ext'[q] = ext[q]
      BY <1>16 DEF DeleteRow, BootTypes
    <2>3. OneDeskEach'
      BY <2>1, <2>2 DEF DesksRight, OneDeskEach, Gone
    <2>4. ASSUME NEW q \in Rows, ext'[q] # Gone PROVE Kept(q)'
      <3>1. Kept(q) /\ q # r
        BY <2>1, <2>2, <2>4 DEF DesksRight
      <3> QED
        BY <2>1, <2>2, <3>1 DEF Kept
    <2> QED
      BY <2>3, <2>4 DEF DesksRight
  <1>17. ASSUME NEW r \in Rows, NEW n \in Numbers, MoveRow(r, n) PROVE DesksRight'
    <2>1. "identity" \in flags /\ moved' = moved \cup {r}
      BY <1>17 DEF MoveRow, Edit, Served, BootSoFar, AfterWrite, AfterKey, AfterSettings, AfterAlter, Steps
    <2>2. /\ ext'[r].number = n /\ ext'[r].digits = ext[r].digits /\ ext[r] # Gone
          /\ \A q \in Rows \ {r} : ext'[q] = ext[q]
      BY <1>17 DEF MoveRow, BootTypes, Desk
    <2>3. OneDeskEach'
      <3>1. \A q \in Rows : ext[q].digits = ext[r].digits => ext[q].number # n
        BY <1>17 DEF MoveRow
      <3> QED
        BY <2>1, <2>2, <3>1 DEF DesksRight, OneDeskEach
    <2>4. Kept(r)'
      BY <1>17, <2>1, <2>2 DEF DesksRight, Kept, MoveRow
    <2>5. ASSUME NEW q \in Rows, q # r, ext'[q] # Gone PROVE Kept(q)'
      <3>1. Kept(q)
        BY <2>1, <2>2, <2>5 DEF DesksRight
      <3> QED
        BY <2>1, <2>2, <2>5, <3>1 DEF Kept
    <2> QED
      BY <2>3, <2>4, <2>5 DEF DesksRight
  <1>18. CASE DropSeed
    BY <1>18, SameRows DEF DropSeed, Edit
  <1>19. CASE ChooseRecording
    BY <1>19, SameRows DEF ChooseRecording, Edit
  <1>20. CASE UNCHANGED vars
    BY <1>20, SameRows DEF vars
  <1> QED
    BY <1>1, <1>2, <1>3, <1>4, <1>5, <1>6, <1>7, <1>8, <1>9, <1>10,
       <1>11, <1>12, <1>13, <1>14, <1>15, <1>16, <1>17, <1>18, <1>19, <1>20
       DEF Next, Booting, Requests

LEMMA BootStep == BootInv /\ [Next]_vars => BootInv'
  BY TypesKept, SoFarKept, OneMigratesKept, UntouchedKept, PlansRightKept, DesksRightKept, FlagsTellKept
     DEF BootInv

----------------------------------------------------------------------------
(* The results. *)

\* In every state that processes of any number, killed at any step, can reach,
\* the migration has left each row the desk it was (Database.create_all,
\* SettingsStore._migrate_extension_identity), and no process serves before.
THEOREM MigrationIsRight == Spec => []Upgraded
  <1>1. BootInv => Upgraded
    <2> SUFFICES ASSUME BootInv, NEW w \in Workers, pc[w] = "up" PROVE Upgraded
      BY DEF Upgraded, Served
    <2>1. schema = [columns |-> TRUE, key |-> "id", unique |-> TRUE]
      BY DEF BootInv, BootTypes, BootSoFar, Steps, AfterAlter, AfterSettings, AfterKey
    <2>2. /\ flags = {"recording", "elastic", "identity", "bootstrap"}
          /\ \A r \in Rows : ext[r].sip = "own"
      BY DEF BootInv, BootTypes, BootSoFar, Steps, AfterAlter, AfterSettings, AfterKey, AfterWrite,
             AfterNames, AfterBootstrap
    <2>3. OneDeskEach /\ \A r \in Rows : ext[r] # Gone => Kept(r)
      BY <2>2 DEF BootInv, DesksRight
    <2> QED
      BY <2>1, <2>2, <2>3 DEF Upgraded, OneDeskEach, Kept, SameDigits
  <1> QED
    BY <1>1, BootStarts, BootStep, PTL DEF Spec

\* What is written behind a one-time flag happens once: the cutover stays, the
\* refused mails are tried again once, a dropped row of the environment stays
\* dropped, and no boot moves an extension after the identities are written.
LEMMA OnceStep ==
    ASSUME BootInv, [Next]_vars
    PROVE  /\ cutover # 0 => cutover' = cutover
           /\ seeds = "dropped" => seeds' = "dropped"
           /\ "identity" \in flags /\ edits' = edits => \A r \in Rows : ext'[r].number = ext[r].number
  <1> DEFINE OnceKept == /\ cutover # 0 => cutover' = cutover
                         /\ seeds = "dropped" => seeds' = "dropped"
                         /\ "identity" \in flags /\ edits' = edits =>
                                \A q \in Rows : ext'[q].number = ext[q].number
  <1> USE DEF BootInv, BootTypes, FlagsTell, seed, data, people, mind, limits
  <1>1. ASSUME NEW w \in Workers, Start(w) PROVE OnceKept
    BY <1>1 DEF Start, Goes
  <1>2. ASSUME NEW w \in Workers, InspectColumns(w) PROVE OnceKept
    BY <1>2 DEF InspectColumns, Goes, Sees
  <1>3. ASSUME NEW w \in Workers, AlterTables(w) PROVE OnceKept
    BY <1>3 DEF AlterTables, Goes, Sees, Falls
  <1>4. ASSUME NEW w \in Workers, ReadRecording(w) PROVE OnceKept
    BY <1>4 DEF ReadRecording, Goes, Sees
  <1>5. ASSUME NEW w \in Workers, WriteSettings(w) PROVE OnceKept
    BY <1>5 DEF WriteSettings, Goes, Sees, Retries, Cutover
  <1>6. ASSUME NEW w \in Workers, TakeLock(w) PROVE OnceKept
    BY <1>6 DEF TakeLock, Goes
  <1>7. ASSUME NEW w \in Workers, AlterKey(w) PROVE OnceKept
    BY <1>7 DEF AlterKey, Goes, NextKey
  <1>8. ASSUME NEW w \in Workers, ReadIdentity(w) PROVE OnceKept
    BY <1>8 DEF ReadIdentity, Goes
  <1>9. ASSUME NEW w \in Workers, WriteIdentity(w) PROVE OnceKept
    BY <1>9 DEF WriteIdentity, Goes, PlansRight
  <1>10. ASSUME NEW w \in Workers, NormaliseNames(w) PROVE OnceKept
    BY <1>10 DEF NormaliseNames, Desk
  <1>11. ASSUME NEW w \in Workers, FirstAdmin(w) PROVE OnceKept
    BY <1>11 DEF FirstAdmin, Goes, Sees, Falls
  <1>12. ASSUME NEW w \in Workers, Bootstrap(w) PROVE OnceKept
    BY <1>12 DEF Bootstrap, Goes, Sees, Falls
  <1>13. ASSUME NEW w \in Workers, AdoptMailboxes(w) PROVE OnceKept
    BY <1>13 DEF AdoptMailboxes, Goes
  <1>14. ASSUME NEW w \in Workers, LockTimesOut(w) PROVE OnceKept
    BY <1>14 DEF LockTimesOut, Falls
  <1>15. ASSUME NEW w \in Workers, Crash(w) PROVE OnceKept
    BY <1>15 DEF Crash, Falls
  <1>16. ASSUME NEW r \in Rows, DeleteRow(r) PROVE OnceKept
    BY <1>16 DEF DeleteRow, Edit
  <1>17. ASSUME NEW r \in Rows, NEW n \in Numbers, MoveRow(r, n) PROVE OnceKept
    BY <1>17 DEF MoveRow, Edit
  <1>18. CASE DropSeed
    BY <1>18 DEF DropSeed, Edit
  <1>19. CASE ChooseRecording
    BY <1>19 DEF ChooseRecording, Edit
  <1>20. CASE UNCHANGED vars
    BY <1>20 DEF vars
  <1> QED
    BY <1>1, <1>2, <1>3, <1>4, <1>5, <1>6, <1>7, <1>8, <1>9, <1>10,
       <1>11, <1>12, <1>13, <1>14, <1>15, <1>16, <1>17, <1>18, <1>19, <1>20
       DEF Next, Booting, Requests

THEOREM OnceOnly == Spec => OneTime
  <1>1. BootInv /\ [Next]_vars =>
          [ /\ cutover # 0 => cutover' = cutover
            /\ retried' <= 1
            /\ seeds = "dropped" => seeds' = "dropped"
            /\ "identity" \in flags /\ edits' = edits =>
                   \A r \in Rows : ext'[r].number = ext[r].number ]_vars
    <2> SUFFICES ASSUME BootInv, [Next]_vars
                 PROVE  /\ cutover # 0 => cutover' = cutover
                        /\ retried' <= 1
                        /\ seeds = "dropped" => seeds' = "dropped"
                        /\ "identity" \in flags /\ edits' = edits =>
                               \A r \in Rows : ext'[r].number = ext[r].number
      OBVIOUS
    <2>1. BootInv'
      BY BootStep
    <2>2. retried' <= 1
      BY <2>1 DEF BootInv, FlagsTell
    <2> QED
      BY <2>2, OnceStep
  <1> QED
    BY <1>1, BootStarts, BootStep, PTL DEF Spec, OneTime
=============================================================================
