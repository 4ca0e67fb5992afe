-------------------------- MODULE MCSessionTracker --------------------------
(* Small instances of SessionTracker for TLC.                              *)
EXTENDS SessionTracker

\* "known" is what the bank already says, "new" a replacement of it, and
\* "chore" the name of a tool.
NewReplacesKnown == {<<"new", "known">>}

TheKnown == <<"known">>

\* accept_session_changes, and close_session that only plans for review.
TheRequests ==
    {callAcceptSessionChanges,
     [dry_run |-> "no", save_raw |-> "absent", auto_apply_low_risk |-> "absent"]}
=============================================================================
