--------------------------- MODULE MCReportServer ---------------------------
(***************************************************************************)
(* ReportServer with one report retried beside another, and a stranger,    *)
(* on two descriptors.                                                      *)
(***************************************************************************)
EXTENDS ReportServer

CONSTANTS r1, r2

MCReports == {r1, r2}
MCTodo    == <<r1, r2>>
\* A stranger's request without a length, and one that is no request.  Neither need
\* ever come: no piece is obliged to, so a request that is never finished is among what
\* the device and the stranger may do.
MCStrays  == {<<"nolength">>, <<"badline">>}
=============================================================================
