--------------------------- MODULE MC_MonitorCapOps ---------------------------
(* Cores sharing one capability d; clients a1 and a2 call the monitor of  *)
(* core A, b1 that of core B, c1 that of core C.  d has the descendant e   *)
(* once retyped.                                                           *)
EXTENDS MonitorCapOps

CONSTANTS A, B, C, a1, a2, b1, c1, d, e

MC_Cores == {A, B}

\* Three cores: a lock needs the grants of two peers.
MC_ThreeCores == {A, B, C}
MC_ClientCore == [c \in Clients |-> CASE c = b1 -> B [] c = c1 -> C [] OTHER -> A]
MC_Descendants == [x \in Caps |-> IF x = d THEN {e} \cap Caps ELSE {}]
MC_InitCopies == [p \in Cores |-> {d}]

\* Every call on every cap.
MC_AllCalls == {"retype", "delete", "revoke"} \X Caps

\* Deletes and revokes of d.
MC_DeleteRevokeCalls == {<<"delete", d>>, <<"revoke", d>>}

=============================================================================
