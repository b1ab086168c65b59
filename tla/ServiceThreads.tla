--------------------------- MODULE ServiceThreads ---------------------------
(***************************************************************************)
(* The threads of the service that share nothing but the log they write    *)
(* to: the upload of its files, the collectors of removable media, the     *)
(* worker that builds evidence packs, the collector of processes, and the  *)
(* loops that poll.  What one does makes no difference to another, so each *)
(* behaviour looks at one of them: the first state says at which.          *)
(***************************************************************************)
EXTENDS Upload, Media, EvidencePack, Processes, Pollers, SessionNotices

VARIABLE focus  \* what moves

threadVars == <<uploadVars, mediaVars, packVars, processVars, pollerVars, noticeVars, focus>>

ThreadsTypeOK ==
    /\ UploadTypeOK
    /\ MediaTypeOK
    /\ PackTypeOK
    /\ ProcessTypeOK
    /\ PollerTypeOK
    /\ NoticeTypeOK

\* Where nothing moves, one initial state stands for all.
AtDefaults ==
    /\ focus # "upload" => dest = "mock"
    /\ focus # "config" => text = Missing
    /\ focus # "guard"  => kept = Places

ThreadsInit ==
    /\ focus \in {"upload", "media", "pack", "processes", "config", "guard", "value", "port",
                 "notices"}
    /\ UploadInit
    /\ MediaInit
    /\ PackInit
    /\ ProcessInit
    /\ PollerInit
    /\ NoticeInit
    /\ AtDefaults

Uploading(A) ==
    /\ focus = "upload"
    /\ A
    /\ UNCHANGED <<mediaVars, packVars, processVars, pollerVars, noticeVars, focus>>

Handling(A) ==
    /\ focus = "media"
    /\ A
    /\ UNCHANGED <<uploadVars, packVars, processVars, pollerVars, noticeVars, focus>>

Packing(A) ==
    /\ focus = "pack"
    /\ A
    /\ UNCHANGED <<uploadVars, mediaVars, processVars, pollerVars, noticeVars, focus>>

Tracing(A) ==
    /\ focus = "processes"
    /\ A
    /\ UNCHANGED <<uploadVars, mediaVars, packVars, pollerVars, noticeVars, focus>>

Polling(what, A) ==
    /\ focus = what
    /\ A
    /\ UNCHANGED <<uploadVars, mediaVars, packVars, processVars, noticeVars, focus>>

Noticing(A) ==
    /\ focus = "notices"
    /\ A
    /\ UNCHANGED <<uploadVars, mediaVars, packVars, processVars, pollerVars, focus>>

ThreadsNext ==
    \/ Uploading(UploadNext)
    \/ Handling(MediaNext)
    \/ Packing(PackNext)
    \/ Tracing(ProcessNext)
    \/ Polling("config", ConfigNext)
    \/ Polling("guard", GuardNext)
    \/ Polling("value", ValueNext)
    \/ Polling("port", PortNext)
    \/ Noticing(NoticeNext)

ThreadsSpec == ThreadsInit /\ [][ThreadsNext]_threadVars

\* The thread that is looked at goes on, or its timer fires.
Going ==
    \/ Uploading(UploadGo)
    \/ Handling(MediaScan)
    \/ Polling("config", Reload)
    \/ Polling("guard", Verify)
    \/ Polling("value", Sample)
    \/ Noticing(Notifying)

\* So does the worker of DeepCollector beside the scan; and no file, outbox or
\* server refuses a file of the log for ever.
Fairness ==
    /\ WF_threadVars(Going)
    /\ WF_threadVars(Handling(MediaPack))
    /\ \A f \in Files : /\ SF_threadVars(Uploading(ReadFile(f)))
                        /\ SF_threadVars(Uploading(Copy(f) \/ Post(f)))

FairSpec == ThreadsSpec /\ Fairness

-----------------------------------------------------------------------------
(* Properties *)

\* The polls catch up with what stays: the event loop's with a readable text of
\* config.json, AclGuard's with a descriptor of the logs, the collectors' with
\* a value; and the agent's window with what was posted to it last.
PollersCatchUp == ConfigCatchesUp /\ LogsClosedAgain /\ LastValueTold /\ LastNoticeTold

=============================================================================
