---------------------------- MODULE MCOperations ----------------------------
EXTENDS Operations

Harmless == [id |-> "e0", correlation |-> "corr1", actor |-> "alice", resource |-> "api",
             timestamp |-> 1, failedLogin |-> FALSE, prohibited |-> FALSE,
             exposure |-> FALSE]

\* Two failures of mallory at the ends of the window, one of somebody else on the
\* same console a moment later, and an event that breaks the two other rules.
MCEvent ==
  {[Harmless EXCEPT !.id = "e1", !.failedLogin = TRUE, !.actor = "mallory",
                    !.resource = "console"],
   [Harmless EXCEPT !.id = "e2", !.failedLogin = TRUE, !.actor = "mallory",
                    !.timestamp = 3, !.correlation = "corr2"],
   [Harmless EXCEPT !.id = "e3", !.failedLogin = TRUE, !.actor = "bob",
                    !.resource = "console", !.timestamp = 4, !.correlation = "corr2"],
   [Harmless EXCEPT !.id = "e4", !.prohibited = TRUE, !.exposure = TRUE]}

MCPostedAlert ==
  {[rule |-> "POSTED", severity |-> "INFO", correlation |-> "corr2", status |-> "OPEN",
    sources |-> {"e1"}]}

MCAskedStatus == {"RESOLVED", "REOPENED"}

=============================================================================
