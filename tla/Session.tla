------------------------------ MODULE Session ------------------------------
(***************************************************************************)
(* What a mount session promises its host, whatever goes on inside: the    *)
(* file left by an earlier process is gone before a mount is taken, the    *)
(* ready-file is created only in the one step that ends start-up, no mount *)
(* is taken after that step or once stopping has begun, and a session that *)
(* leaves by itself has released every mount it held.                      *)
(***************************************************************************)
CONSTANT Mounts          \* the mounts a session may hold

VARIABLES phase,         \* off, starting, serving, stopping, left or killed
          held,          \* the mounts the session answers for
          file           \* does the ready-file exist?

svars == <<phase, held, file>>

SInit == phase = "off" /\ held = {} /\ file \in BOOLEAN

Clear == phase = "off" /\ phase' = "starting" /\ file' = FALSE /\ UNCHANGED held

\* A session that cannot start leaves the file as it found it.
GiveUp == phase = "off" /\ phase' = "left" /\ UNCHANGED <<held, file>>

Acquire(m) ==
    /\ phase = "starting" /\ m \notin held
    /\ held' = held \cup {m}
    /\ UNCHANGED <<phase, file>>

Announce ==
    /\ phase = "starting" /\ held # {}
    /\ phase' = "serving" /\ file' \in BOOLEAN
    /\ UNCHANGED held

\* Stopping for a reason of the session's own, or for a failed announcement.
Stop ==
    /\ phase \in {"starting", "serving"}
    /\ phase' = "stopping"
    /\ file' \in (IF phase = "starting" /\ held # {} THEN {file, TRUE} ELSE {file})
    /\ UNCHANGED held

\* A mount that ended by itself is no longer the session's to release.
Abandon(m) ==
    /\ phase = "serving" /\ m \in held
    /\ phase' = "stopping" /\ held' = held \ {m}
    /\ UNCHANGED file

Release(m) ==
    /\ phase = "stopping" /\ m \in held
    /\ held' = held \ {m}
    /\ UNCHANGED <<phase, file>>

Leave ==
    /\ phase = "stopping" /\ held = {}
    /\ phase' = "left" /\ file' \in {FALSE, file}
    /\ UNCHANGED held

\* The process is killed: its mounts go with it, the file stays.
Perish ==
    /\ phase \notin {"left", "killed"}
    /\ phase' = "killed" /\ held' = {}
    /\ UNCHANGED file

Again == phase \in {"left", "killed"} /\ phase' = "off" /\ UNCHANGED <<held, file>>

SNext ==
    \/ Clear \/ GiveUp \/ Announce \/ Stop \/ Leave \/ Perish \/ Again
    \/ \E m \in Mounts : Acquire(m) \/ Abandon(m) \/ Release(m)

SSpec == SInit /\ [][SNext]_svars
=============================================================================
