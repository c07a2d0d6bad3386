---------------------------- MODULE MCRequestLog ----------------------------
(* Instances of RequestLog for TLC. *)
EXTENDS RequestLog

\* What an execution prints. In a common runtime stdout gets a line and each stream
\* its end marker; in a concurrent one stdout gets a line with the request's ID.
PrintedLines(s, m) ==
    CASE m = "common" /\ s = "stdout" -> <<"text", "nl", "zero">>
      [] m = "common" /\ s = "stderr" -> <<"zero">>
      [] m = "concurrent" /\ s = "stdout" -> <<"tab", "id", "tab", "nl">>
      [] m = "concurrent" /\ s = "stderr" -> << >>

\* The lines of a concurrent runtime name their requests, the output of a common one ends
\* with a marker: what the proofs assume.
ASSUME MCLineForm == LineForm /\ MarkForm
=============================================================================
