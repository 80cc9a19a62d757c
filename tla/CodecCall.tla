------------------------------- MODULE CodecCall -------------------------------
(***************************************************************************)
(* What a caller of compressXZ or decompressXZ relies on: the call ends in *)
(* one step, either returning a result its argument allows or throwing (a  *)
(* DhtError or std::bad_alloc), and what it returned never changes.        *)
(***************************************************************************)
CONSTANTS Args,      \* the arguments the function is called with
          Results    \* Results[a]: what a normal return for a may deliver

VARIABLES arg, status, result

callVars == <<arg, status, result>>

CallInit ==
  /\ arg \in Args
  /\ status = "running"
  /\ result = <<>>

Return ==
  /\ status = "running"
  /\ status' = "returned"
  /\ result' \in Results[arg]
  /\ UNCHANGED arg

Throw ==
  /\ status = "running"
  /\ status' = "threw"
  /\ UNCHANGED <<arg, result>>

CallNext == Return \/ Throw

\* What a call may do, and that it does end.
CallSafety == CallInit /\ [][CallNext]_callVars
CallSpec == CallSafety /\ WF_callVars(CallNext)

=============================================================================
