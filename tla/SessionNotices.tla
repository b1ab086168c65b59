--------------------------- MODULE SessionNotices ---------------------------
(***************************************************************************)
(* SessionNotificationCollector of a user agent.  Its thread has a window  *)
(* to which Windows posts what happens to the session; it takes the        *)
(* messages out one after another and writes an event for those that lock  *)
(* or unlock the session.  When PeekMessage finds none, WaitMessage blocks *)
(* the thread until a message comes that no PeekMessage has seen.          *)
(*                                                                         *)
(* Nothing but its death ends an agent, and then another is launched.  Who *)
(* the user is, and what PipeClient makes of the event, is left out here.  *)
(***************************************************************************)
EXTENDS Naturals, Sequences

CONSTANT MaxNotices  \* bound: messages that wait

ASSUME NoticeAssumption == MaxNotices \in Nat

Locks   == {"lock", "unlock"}
Notices == Locks \cup {"other"}

VARIABLES
    notifier,  \* what message_thread_main is about to do
    inbox,     \* messages of its window
    fresh,     \* one has come since it last looked for any
    \* history
    announced, \* the last of Locks that was posted, or "none"
    noticed    \* and the last an event was written for

noticeVars == <<notifier, inbox, fresh, announced, noticed>>

NoticeTypeOK ==
    /\ notifier \in {"register", "peek", "wait", "off"}
    /\ inbox \in Seq(Notices) /\ Len(inbox) <= MaxNotices
    /\ fresh \in BOOLEAN
    /\ announced \in Locks \cup {"none"}
    /\ noticed \in Locks \cup {"none"}

\* start has made the thread.
NoticeInit ==
    /\ notifier = "register"
    /\ inbox = <<>>
    /\ fresh = FALSE
    /\ announced = "none"
    /\ noticed = "none"

\* It creates the window and registers it, or ends because it cannot.
Register ==
    /\ notifier = "register"
    /\ notifier' \in {"peek", "off"}
    /\ UNCHANGED <<inbox, fresh, announced, noticed>>

\* Windows posts to a window that is registered.  A session that is locked is
\* unlocked before it is locked again.
PostNotice(m) ==
    /\ notifier \in {"peek", "wait"}
    /\ Len(inbox) < MaxNotices
    /\ m # announced
    /\ inbox' = Append(inbox, m)
    /\ fresh' = TRUE
    /\ announced' = IF m \in Locks THEN m ELSE announced
    /\ UNCHANGED <<notifier, noticed>>

\* The event is written, whatever becomes of it.
EmitSessionEvent(action) == noticed' = action

\* on_wts_session_change
OnWtsSessionChange(m) == IF m \in Locks THEN EmitSessionEvent(m) ELSE UNCHANGED noticed

\* What would go wrong: one message is taken before the thread waits.
DispatchOne ==
    /\ notifier = "peek"
    /\ inbox # <<>>
    /\ inbox' = Tail(inbox)
    /\ fresh' = FALSE
    /\ OnWtsSessionChange(Head(inbox))
    /\ notifier' = "wait"
    /\ UNCHANGED announced

\* The window procedure handles the message that PeekMessage took out.
Dispatch ==
    /\ notifier = "peek"
    /\ inbox # <<>>
    /\ inbox' = Tail(inbox)
    /\ fresh' = FALSE
    /\ OnWtsSessionChange(Head(inbox))
    /\ UNCHANGED <<notifier, announced>>

\* PeekMessage finds none: the thread goes on to wait ...
Drained ==
    /\ notifier = "peek"
    /\ inbox = <<>>
    /\ notifier' = "wait"
    /\ fresh' = FALSE
    /\ UNCHANGED <<inbox, announced, noticed>>

\* ... unless one has come meanwhile.
Wake ==
    /\ notifier = "wait"
    /\ fresh
    /\ notifier' = "peek"
    /\ UNCHANGED <<inbox, fresh, announced, noticed>>

\* The agent is killed, and the next one begins.
Relaunch ==
    /\ notifier' = "register"
    /\ inbox' = <<>>
    /\ fresh' = FALSE
    /\ announced' = "none"
    /\ noticed' = "none"

NoticeNext ==
    \/ Register
    \/ \E m \in Notices : PostNotice(m)
    \/ Dispatch
    \/ Drained
    \/ Wake
    \/ Relaunch

NoticeSpec == NoticeInit /\ [][NoticeNext]_noticeVars

\* The thread goes on when it can.
Notifying == Dispatch \/ Drained \/ Wake

-----------------------------------------------------------------------------
(* Properties *)

\* The thread blocks only when an event has been written for the last lock or
\* unlock there was: no message is left behind in its window.
SleepsOnlyWhenTold == notifier = "wait" /\ ~fresh => noticed = announced

\* Unless locks and unlocks are posted for ever, an event for the last of them
\* is written, whatever was posted while the thread wrote others or was about
\* to wait.
LastNoticeTold ==
    []<><<TRUE>>_announced \/ []<>(announced \in {"none", noticed})

=============================================================================
