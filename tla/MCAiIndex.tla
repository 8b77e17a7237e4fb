----------------------------- MODULE MCAiIndex ------------------------------
(* AiIndex for TLC: two artifacts, or a sermon and an artifact that cannot be read. *)
EXTENDS AiIndex

\* The older artifact is of any kind, the newer one can be indexed, ...
MCInit == Init /\ kind[2] = "text"

\* ... and a sermon is there only together with an artifact that cannot be read.
Apart ==
  \/ \A s \in Sermons : content[s] = 0
  \/ archived = {} /\ \A a \in ready : kind[a] = "missing"

MCSpec == MCInit /\ [][Next /\ Apart']_vars /\ Fairness

=============================================================================
