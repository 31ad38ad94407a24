------------------------------- MODULE MCLines -------------------------------
EXTENDS Lines, DialPlan

SameThreads == Permutations(Threads)

Ring(k) == Step("ring", <<k>>)
Box(k)  == Step("voicemail", <<k>>)
Away    == Step("forward", <<>>)

\* Flows of a number: ring and take a message; ring, then outside office hours
\* forward, else offer a menu with a key of its own.
MCDesigns(k, l) ==
    {<<Ring(k), Box(l)>>, <<Ring(k), Step("hours", <<>>), Step("ivr", <<k, l>>), Away>>}
\* Flows of a desk: switched off and forwarded; ring another one on no answer.
MCDeskDesigns(k, l) ==
    {<<[Step("extension", <<k>>) EXCEPT !.on = FALSE], Away>>,
     <<[Step("extension", <<k>>) EXCEPT !.rule = "extension"], Step("extension", <<l>>)>>}
\* The first of them only.
MCDeskOff(k, l) == {<<[Step("extension", <<k>>) EXCEPT !.on = FALSE], Away>>}
=============================================================================
