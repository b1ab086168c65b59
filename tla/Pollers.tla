------------------------------ MODULE Pollers ------------------------------
(***************************************************************************)
(* Loops that compare the world now and then with what they remember.      *)
(* run_event_loop reads config.json at its start, and again when its time  *)
(* of modification is another than the one remembered; AclGuard sets the   *)
(* descriptors of the data folders again when the one of the logs is not   *)
(* as it should be; the clipboard and the foreground collector report a    *)
(* value that differs from the last.  NetworkCollector reports whatever    *)
(* connections it finds.                                                   *)
(*                                                                         *)
(* What config.json says is a profile, a daily limit of the log and the    *)
(* two collectors a profile may overrule, or only the first part of that:  *)
(* a key that is missing has its default.  The limit and the collectors    *)
(* are taken from the configuration at the start of the service, and the   *)
(* profile, which stands for the intervals and folders that follow from it *)
(* or are read like it, whenever it is needed.  Each modification has a    *)
(* time of its own.                                                        *)
(***************************************************************************)
EXTENDS Naturals

CONSTANTS Texts,    \* what an administrator writes to config.json
          Ram,      \* the profile for the memory of the machine
          Values,   \* what the clipboard or the foreground may hold
          Ports,    \* ports of connections
          Junk      \* what the byte above a port may hold in the TCP table

Profiles == {"low", "standard", "full"}
Text     == [profile : Profiles \cup {"auto", "other"},
             process : BOOLEAN, network : BOOLEAN, mb : Nat]
Config   == [profile : Profiles, process : BOOLEAN, network : BOOLEAN, mb : Nat]
Word     == 0 .. 256 * 256 - 1  \* two bytes

ASSUME PollerAssumption ==
    /\ Texts \subseteq Text
    /\ Ram \in Profiles
    /\ Ports \subseteq Word \ {0}
    /\ Junk \subseteq 0 .. 255
    /\ "empty" \notin Values

Places == {"root", "logs", "keys", "config", "chain"}

Empty == [profile |-> "none"]  \* a file of length 0

VARIABLES
    text,     \* what config.json holds, or Empty
    whole,    \* it is all of what was written
    newer,    \* its time of modification is not last_write_time_
    reading,  \* that time is stored and the file not yet read, by a "reload" or the
              \* "load" of a start; or "no"
    config,   \* config_
    begun,    \* the collectors that run and the limit of the log
    kept,     \* places whose descriptor is as AclGuard sets it
    reported, \* the guard could not set all of them again, and has told so since
    value,    \* what is on the clipboard or in the foreground, or "empty"
    last,     \* last_hash_, or last_pid_, last_title_ and last_exe_path_
    port,     \* the remote port of a connection, or 0
    shown,    \* that port and the one the last snapshot shows, or <<>>
    \* history
    refused,  \* config.json could not be read when the service last tried
    started,  \* the service has started since config.json was last written
    noted,    \* the value the log was last told of
    denied    \* the event of the last value was refused

configVars == <<text, whole, newer, reading, config, begun, refused, started>>
aclVars    == <<kept, reported>>
valueVars  == <<value, last, noted, denied>>
portVars   == <<port, shown>>
pollerVars == <<configVars, aclVars, valueVars, portVars>>

-----------------------------------------------------------------------------
(* What a text means *)

Missing == [profile |-> "auto", process |-> TRUE, network |-> TRUE, mb |-> 10]

\* AgentConfig{}, when there is no text.
Default == [Missing EXCEPT !.profile = "standard"]

\* The keys come in their order; the profile is the first.
Beginning(t) == [Missing EXCEPT !.profile = t.profile]

\* resolve_profile_name
ProfileOf(name) ==
    IF name = "auto" THEN Ram ELSE IF name \in {"low", "full"} THEN name ELSE "standard"

\* The low profile switches two collectors off and limits the log, the full
\* one raises the limit.
Applied(c) ==
    CASE c.profile = "low"  -> [c EXCEPT !.process = FALSE, !.network = FALSE,
                                         !.mb = IF @ > 3 THEN 3 ELSE @]
      [] c.profile = "full" -> [c EXCEPT !.mb = IF @ < 50 THEN 50 ELSE @]
      [] OTHER              -> c

\* parse_agent_config_json and apply_profile
Parsed(t) == Applied([t EXCEPT !.profile = ProfileOf(t.profile)])

\* What run_event_loop takes from the configuration once.
AtStart(c) == [process |-> c.process, network |-> c.network, mb |-> c.mb]

\* extract_port: of the two bytes of a port the higher one comes first in
\* memory.  It is kept, and in the place of the lower one comes what lies above
\* the port in its field of the TCP table.
ExtractPort(p, above) == (p \div 256) * 256 + above

PollerTypeOK ==
    /\ text \in Text \cup {Empty}
    /\ whole \in BOOLEAN
    /\ newer \in BOOLEAN
    /\ reading \in {"no", "load", "reload"}
    /\ config \in Config
    /\ begun \in [process : BOOLEAN, network : BOOLEAN, mb : Nat]
    /\ kept \subseteq Places
    /\ reported \in BOOLEAN
    /\ value \in Values \cup {"empty"}
    /\ last \in Values \cup {"empty"}
    /\ port \in Ports \cup {0}
    /\ shown \in (Ports \X Word) \cup {<<>>}
    /\ refused \in BOOLEAN
    /\ started \in BOOLEAN
    /\ noted \in Values \cup {"empty"}
    /\ denied \in BOOLEAN

\* load has stored the time of the file, which it has written with the defaults
\* if it was missing; the first apply of AclGuard is over.
PollerInit ==
    /\ text \in Texts \cup {Missing}
    /\ whole = TRUE
    /\ newer = FALSE
    /\ reading = "load"
    /\ config = Default
    /\ begun = AtStart(Default)
    /\ refused = FALSE
    /\ started = TRUE
    /\ kept \in {Places, Places \ {"logs"}}
    /\ reported = FALSE
    /\ value = "empty"
    /\ last = "empty"
    /\ noted = "empty"
    /\ denied = FALSE
    /\ port = 0
    /\ shown = <<>>

-----------------------------------------------------------------------------
(* config.json and ConfigManager *)

\* Editors truncate the file, ...
Truncate ==
    /\ whole
    /\ text' = Empty
    /\ whole' = FALSE
    /\ newer' = TRUE
    /\ started' = FALSE
    /\ UNCHANGED <<reading, config, begun, refused, aclVars, valueVars, portVars>>

\* ... and write it, in one part or more.
WriteText(t) ==
    /\ ~whole
    /\ \/ text = Empty /\ text' = Beginning(t) /\ UNCHANGED whole
       \/ text \in {Empty, Beginning(t)} /\ text' = t /\ whole' = TRUE
    /\ newer' = TRUE
    /\ started' = FALSE
    /\ UNCHANGED <<reading, config, begun, refused, aclVars, valueVars, portVars>>

\* Each 60 s the loop looks at the time of the file.
CheckTime ==
    /\ reading = "no"
    /\ newer
    /\ newer' = FALSE
    /\ reading' = "reload"
    /\ UNCHANGED <<text, whole, config, begun, refused, started, aclVars, valueVars, portVars>>

\* The service ends and starts again, with a new ConfigManager.
Restart ==
    /\ reading # "load"
    /\ newer' = FALSE
    /\ reading' = "load"
    /\ config' = Default
    /\ refused' = FALSE
    /\ started' = TRUE
    /\ UNCHANGED <<text, whole, begun, aclVars, valueVars, portVars>>

\* The file has been looked at, and a start goes on with what config_ is now.
Loaded ==
    /\ reading # "no"
    /\ reading' = "no"
    /\ begun' = IF reading = "load" THEN AtStart(config') ELSE begun

\* What would go wrong: a text is taken over when its profile is another.
ReadProfile ==
    /\ text # Empty
    /\ config' = IF ProfileOf(text.profile) = config.profile THEN config ELSE Parsed(text)
    /\ Loaded
    /\ refused' = FALSE
    /\ UNCHANGED <<text, whole, newer, started, aclVars, valueVars, portVars>>

\* parse_file takes what is there ...
ReadText ==
    /\ text # Empty
    /\ config' = Parsed(text)
    /\ Loaded
    /\ refused' = FALSE
    /\ UNCHANGED <<text, whole, newer, started, aclVars, valueVars, portVars>>

\* ... unless there is nothing, or an editor shares it with nobody.  The time
\* is remembered all the same.
ReadNothing ==
    /\ UNCHANGED config
    /\ Loaded
    /\ refused' = TRUE
    /\ UNCHANGED <<text, whole, newer, started, aclVars, valueVars, portVars>>

-----------------------------------------------------------------------------
(* AclGuard *)

\* An administrator changes a descriptor.
Tamper(p) ==
    /\ p \in kept
    /\ kept' = kept \ {p}
    /\ reported' = (reported /\ p # "logs")
    /\ UNCHANGED <<configVars, valueVars, portVars>>

\* acl_denies_users_write of the logs, which is all that verify looks at.
LogsClosed == "logs" \in kept

\* apply sets one place after another, and each may fail; it has succeeded when
\* all are set.
Apply(done) ==
    /\ kept' = kept \cup done
    /\ reported' = (done # Places)

\* What would go wrong: the root is verified, on behalf of all that is in it.
VerifyRoot ==
    /\ "root" \notin kept
    /\ \E done \in SUBSET Places : Apply(done)
    /\ UNCHANGED <<configVars, valueVars, portVars>>

\* Each 300 s the guard looks, and when the logs are open it sets all places
\* again and tells whether that failed.  Places that are open while the logs
\* are not stay so.
Verify ==
    /\ ~LogsClosed
    /\ \E done \in SUBSET Places : Apply(done)
    /\ UNCHANGED <<configVars, valueVars, portVars>>

-----------------------------------------------------------------------------
(* ClipboardCollector and ForegroundCollector *)

Change(v) ==
    /\ v # value
    /\ value' = v
    /\ UNCHANGED <<last, noted, denied, configVars, aclVars, portVars>>

\* The hash of a text, or the process, title and path of a window, is another
\* than the last.
Differs == value \notin {"empty", last}

\* A value is remembered before its event is written, or refused.
Sample ==
    /\ Differs
    /\ last' = value
    /\ denied' \in BOOLEAN
    /\ noted' = IF denied' THEN noted ELSE value
    /\ UNCHANGED <<value, configVars, aclVars, portVars>>

-----------------------------------------------------------------------------
(* NetworkCollector *)

Connect(p) ==
    /\ p # port
    /\ port' = p
    /\ UNCHANGED <<shown, configVars, aclVars, valueVars>>

\* emit_snapshot
Snapshot(above) ==
    /\ port # 0
    /\ shown' = <<port, ExtractPort(port, above)>>
    /\ UNCHANGED <<port, configVars, aclVars, valueVars>>

ConfigNext ==
    \/ Truncate
    \/ \E t \in Texts : WriteText(t)
    \/ CheckTime
    \/ Restart
    \/ ReadText
    \/ ReadNothing

GuardNext == Verify \/ \E p \in Places : Tamper(p)

ValueNext == Sample \/ \E v \in Values \cup {"empty"} : Change(v)

PortNext == (\E p \in Ports : Connect(p)) \/ (\E above \in Junk : Snapshot(above))

PollerNext == ConfigNext \/ GuardNext \/ ValueNext \/ PortNext

PollerSpec == PollerInit /\ [][PollerNext]_pollerVars

\* A start goes on, or the timer of the loop fires.
Reload == CheckTime \/ ReadText \/ ReadNothing

-----------------------------------------------------------------------------
(* Properties *)

\* What config.json says when it has been left alone is in config_ at last,
\* however the writing and the reading of it came between each other, unless
\* the last attempt to read it was refused: that one is never repeated.  The
\* collectors that run and the limit of the log are those of the text if the
\* service has started since: docs/TESTING.md, 4.1, calls for that.
ConfigCatchesUp ==
    <>[](whole /\ ~refused) =>
        <>[](\/ reading = "load"
             \/ config = Parsed(text) /\ (started => begun = AtStart(config)))

\* Logs that are open to their users are closed again, or the log is told that
\* they could not be.
LogsClosedAgain == ~LogsClosed ~> LogsClosed \/ reported

\* Again and again the value the log was told of last is the one that is there,
\* or its event was refused: that one is never repeated.
LastValueTold == []<>(value \in {"empty", noted} \/ (last = value /\ denied))

\* docs/TESTING.md, 4.3: the snapshot shows the port of the connection.
PortIsShown == shown # <<>> => shown[2] = shown[1]

=============================================================================
