--------------------------- MODULE MCMessageQueue ---------------------------
EXTENDS MessageQueue, TLC

CONSTANTS m1, m2

\* Two of the ships send, a text of their own each, one to both others.
TwoSenders == <<{m1}, {m2}>>

ToOthers == <<{{2, 3}}, {{1}}>>
ToEachOther == <<{{2}}, {{1}}>>

\* States that differ in values nobody will look at are one: texts that are
\* neither in the list nor about to be, the text printed last, DBITS except on the
\* way to UPDT, X2 and the copied text except on the way to REMV or UPDT.
Seen ==
    LET live == Chain \cup {x2[w].slot : w \in {v \in Ships : pc[v] = "publish"}}
    IN  <<queue, [i \in live |-> text[i]], msgflg, pc,
          [w \in Ships |-> IF pc[w] \in {"prompt", "publish"} THEN dbits[w] ELSE {}],
          [w \in Ships |->
              IF pc[w] \in {"cancel", "publish"} THEN <<x2[w].slot>>
              ELSE IF pc[w] = "remove" THEN <<x2[w], copied[w]>> ELSE <<>>]>>
=============================================================================
