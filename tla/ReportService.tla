--------------------------- MODULE ReportService ---------------------------
(***************************************************************************)
(* What the uploading thread and the report server owe each other, whatever *)
(* connects them: one report at a time is asked for; it counts as done only *)
(* once the server has taken it; one given up on may still be taken later,  *)
(* any number of times while copies of it are on their way.                 *)
(*                                                                          *)
(* UploadTask (the device's side) and ReportServer (the server's side) are  *)
(* each shown to implement this specification.                              *)
(***************************************************************************)

CONSTANTS
  Reports,
  NoReport  \* none of them

VARIABLES
  report,   \* the report being asked for
  status,   \* of that report: "idle" (there is none), "sent", "taken", "acked"
  late,     \* reports given up on that may still be taken
  received  \* reports the server has taken at least once

svars == <<report, status, late, received>>

Init ==
  /\ report = NoReport
  /\ status = "idle"
  /\ late = {}
  /\ received = {}

Ask ==
  /\ status = "idle"
  /\ report' \in Reports
  /\ status' = "sent"
  /\ UNCHANGED <<late, received>>

Take ==
  /\ status = "sent"
  /\ status' = "taken"
  /\ received' = received \cup {report}
  /\ UNCHANGED <<report, late>>

Acknowledge ==
  /\ status = "taken"
  /\ status' = "acked"
  /\ UNCHANGED <<report, late, received>>

\* The report is done with, for good if it was acknowledged.
Finish ==
  /\ status = "acked"
  /\ status' = "idle"
  /\ report' = NoReport
  /\ UNCHANGED <<late, received>>

GiveUp ==
  /\ status \in {"sent", "taken"}
  /\ status' = "idle"
  /\ report' = NoReport
  /\ late' \in SUBSET (IF status = "sent" THEN late \cup {report} ELSE late)
  /\ UNCHANGED received

TakeLate ==
  /\ \E r \in late : received' = received \cup {r}
  /\ late' \in SUBSET late
  /\ UNCHANGED <<report, status>>

Lose ==
  /\ late' \in SUBSET late
  /\ UNCHANGED <<report, status, received>>

Next == Ask \/ Take \/ Acknowledge \/ Finish \/ GiveUp \/ TakeLate \/ Lose

Spec == Init /\ [][Next]_svars
=============================================================================
