----------------------------- MODULE MCCampaign -----------------------------
(* A campaign over two axes of a small guest: the first register selects a  *)
(* branch, the second a value that only one branch uses.                     *)
EXTENDS Campaign

MCAxes == << <<0, 1>>, <<5, 6, 5>> >>
MCBase == <<NoValue, 6>>

Response(ok, stop, regs, trace) ==
  [ok |-> ok, stop |-> stop, regs |-> regs, trace |-> trace, late |-> FALSE]

\* Branch 0 leaves its registers alone; branch 1 doubles the second one and
\* traps on the value 6.  Edited once, the image loops there instead; edited
\* twice, it does neither.
MCGuest(img, a) ==
  IF a[1] = 0 THEN Response(TRUE, "return", a, << <<0, "b">>, <<1, "r">> >>)
  ELSE IF a[2] # 6 \/ img = 2
  THEN Response(TRUE, "return", <<1, 2 * a[2]>>, << <<0, "b">>, <<2, "d">>, <<3, "r">> >>)
  ELSE IF img = 0 THEN Response(FALSE, "trap", a, << <<0, "b">>, <<2, "t">> >>)
  ELSE [Response(FALSE, "none", <<>>, << <<0, "b">> >>) EXCEPT !.late = TRUE]

\* The other engine computes another sum on branch 1, but for the last image.
MCRightGuest(img, a) ==
  LET r == MCGuest(img, a)
  IN IF a[1] = 1 /\ r.ok /\ img < 2 THEN [r EXCEPT !.regs[2] = @ + 1] ELSE r

\* A manifest with everything switched on.
Full(strategy, select) ==
  [strategy |-> strategy, select |-> select, promote |-> TRUE, intel |-> TRUE,
   verify |-> TRUE, replay |-> TRUE, triage |-> TRUE, publish |-> TRUE, brief |-> FALSE]

MCOptions ==
  {Full("guided", "novel-or-failed"),
   [Full("adaptive", "novel") EXCEPT !.brief = TRUE],
   [Full("cartesian", "all") EXCEPT !.promote = FALSE, !.intel = FALSE, !.replay = FALSE,
                                    !.publish = FALSE],
   [Full("adaptive", "failed") EXCEPT !.intel = FALSE, !.verify = FALSE],
   [Full("guided", "all") EXCEPT !.verify = FALSE, !.replay = FALSE, !.triage = FALSE]}

\* An empty corpus, or one case, pinned when branch 0 left 7 in the second register.
OldAnswer == Answered(Response(TRUE, "return", <<0, 7>>, << <<0, "b">>, <<1, "r">> >>))
OldId == <<1, StableArchitecture(OldAnswer, <<0, 5>>)>>
MCInherited ==
  {<<>>,
   [id \in {OldId} |-> [img |-> 0, a |-> <<0, 5>>, exp |-> StableExpectation(OldAnswer)]]}
=============================================================================
