----------------------------- MODULE LifeCycle ------------------------------
(***************************************************************************)
(* The life of the kernel module: the configfs directories of sessions and *)
(* devices, the block devices registered for them, the one backup disk     *)
(* (stackbd) and the trigger thread of each session.                       *)
(*                                                                         *)
(* A directory operation or an attribute store is one step, except that    *)
(* the store of a device sleeps for ten seconds before it wakes the        *)
(* trigger thread.  Using freed memory, a NULL pointer or an object that   *)
(* was never registered may end the machine (up).                          *)
(***************************************************************************)
EXTENDS Integers, FiniteSetsExt

CONSTANTS
    Host,      \* names of session directories
    Dev,       \* names of device directories
    Portal,    \* texts written to the attribute portal
    Servers,   \* the number of servers in each (p_count)
    MaxMajors, \* bound: major numbers the kernel has left
    None,      \* no name, no text
    Faults     \* the calls that may fail, and unsafe administration

(* Calls of IS_create_device that may fail, in their order. *)
CreateFaults == {"queues", "mq", "disk", "stack_queue", "gd", "start"}

ASSUME LifeCycleAssumption ==
    /\ Host \cap Dev = {} /\ None \notin Host \cup Dev \cup Portal
    /\ Servers \in [Portal -> Nat] /\ MaxMajors \in Nat

VARIABLES
    up,        \* the kernel runs
    loaded,    \* the module is in the kernel
    session,   \* struct IS_session of each session directory
    file,      \* struct IS_file of each device directory
    trigger,   \* rdma_trigger_thread of each session
    NUM_CB,    \* servers of the portal parsed last
    stackbd,   \* the backup disk
    major_num, \* what register_blkdev returned last: -1 is an error
    held       \* major numbers registered for STACKBD_NAME

lifeVars == <<up, loaded, session, file, trigger, NUM_CB, stackbd, major_num, held>>

NoSession == [made |-> FALSE]
NoFile == [made |-> FALSE]
NoStackbd == [is_active |-> FALSE, thread |-> FALSE, gd |-> FALSE]

(* What IS_session_make_group allocates.  given is the text the portal was *)
(* written with, conns whether IS_conns is set.                            *)
NewSession == [made |-> TRUE, portal |-> None, given |-> None, cb_num |-> 0,
               conns |-> FALSE]

(* What IS_device_make_group allocates.  waking: the store sleeps.         *)
NewFile(h) == [made |-> TRUE, host |-> h, file_name |-> None,
               state |-> "OPENNING", queues |-> "null", disk |-> "null",
               waking |-> FALSE]

Hosts == {h \in Host : session[h].made}
Devs  == {d \in Dev : file[d].made}

LifeInit ==
    /\ up = TRUE /\ loaded = FALSE
    /\ session = [h \in Host |-> NoSession]
    /\ file = [d \in Dev |-> NoFile]
    /\ trigger = [h \in Host |-> "null"]
    /\ NUM_CB = 0 /\ stackbd = NoStackbd /\ major_num = 0 /\ held = {}

(* The machine starts again. *)
Reboot ==
    /\ up' = TRUE /\ loaded' = FALSE
    /\ session' = [h \in Host |-> NoSession]
    /\ file' = [d \in Dev |-> NoFile]
    /\ trigger' = [h \in Host |-> "null"]
    /\ NUM_CB' = 0 /\ stackbd' = NoStackbd /\ major_num' = 0 /\ held' = {}

Oops ==
    /\ up' = FALSE
    /\ UNCHANGED <<loaded, session, file, trigger, NUM_CB, stackbd, major_num, held>>

-----------------------------------------------------------------------------
(* The module *)

(* modprobe. *)
IS_init_module ==
    /\ up /\ ~loaded
    /\ loaded' = TRUE
    /\ NUM_CB' = 0 /\ stackbd' = NoStackbd /\ major_num' = 0
    /\ UNCHANGED <<up, session, file, trigger, held>>

(* modprobe -r: a directory of configfs holds a reference to the module,   *)
(* so the list of sessions that IS_cleanup_module walks is empty.          *)
IS_cleanup_module ==
    /\ up /\ loaded /\ Hosts = {}
    /\ loaded' = FALSE
    /\ UNCHANGED <<up, session, file, trigger, NUM_CB, stackbd, major_num, held>>

-----------------------------------------------------------------------------
(* Sessions *)

(* mkdir of a host. *)
IS_session_make_group(h) ==
    /\ session' = [session EXCEPT ![h] = NewSession]
    /\ UNCHANGED <<up, loaded, file, trigger, NUM_CB, stackbd, major_num, held>>

(* Whether a session has this portal.  *)
IS_session_find_by_portal(p) == \E h \in Hosts : session[h].portal = p

(* portal_parser separates the text in place at its commas: the portal of  *)
(* the session is left with the number of servers alone.                   *)
portal_parser(p) == Servers[p]

(* When IS_create_conn fails, IS_conns is freed and no thread created.     *)
IS_session_create(h, p, ok) ==
    /\ ok \/ "conns" \in Faults
    /\ session' = [session EXCEPT ![h].portal = portal_parser(p), ![h].given = p,
                                  ![h].cb_num = Servers[p], ![h].conns = ok]
    /\ NUM_CB' = Servers[p]
    /\ trigger' = [trigger EXCEPT ![h] = IF ok /\ @ # "orphan" THEN "created" ELSE @]
    /\ UNCHANGED <<up, loaded, file, stackbd, major_num, held>>

(* The write of the portal: ok is its result. *)
portal_attr_store(h, p, ok) ==
    IF IS_session_find_by_portal(p) THEN ~ok /\ UNCHANGED lifeVars
    ELSE IS_session_create(h, p, ok)

(* rmdir of a host, which configfs refuses while it has devices.  The      *)
(* thread is not stopped: one that runs goes on with the freed session.    *)
IS_session_drop(h) ==
    /\ session' = [session EXCEPT ![h] = NoSession]
    /\ trigger' = [trigger EXCEPT ![h] =
                       IF @ \in {"awake", "running", "orphan"} THEN "orphan" ELSE "null"]
    /\ UNCHANGED <<up, loaded, file, NUM_CB, stackbd, major_num, held>>

(* A pass of the thread's loop: IS_single_chunk_map counts and draws among *)
(* NUM_CB servers, and reads the cb_num entries of its session.            *)
rdma_trigger(h) ==
    /\ up /\ trigger[h] \in {"awake", "running", "orphan"}
    /\ IF trigger[h] = "orphan" \/ ~loaded \/ NUM_CB # session[h].cb_num
       THEN Oops
       ELSE /\ trigger' = [trigger EXCEPT ![h] = "running"]
            /\ UNCHANGED <<up, loaded, session, file, NUM_CB, stackbd, major_num, held>>

-----------------------------------------------------------------------------
(* Devices *)

(* mkdir of a device. *)
IS_device_make_group(h, d) ==
    /\ file' = [file EXCEPT ![d] = NewFile(h)]
    /\ UNCHANGED <<up, loaded, session, trigger, NUM_CB, stackbd, major_num, held>>

(* Whether the session of d has a device of this name. *)
IS_file_find(d, name) ==
    \E e \in Devs : file[e].host = file[d].host /\ file[e].file_name = name

(* register_blkdev(major_num, STACKBD_NAME) takes the highest free number  *)
(* and returns it when major_num is 0.  It takes major_num and returns 0   *)
(* when it is given a number that is free, and fails otherwise.            *)
FreeMajors == 1 .. MaxMajors \ held

TakenMajor == IF major_num = 0 THEN Max(FreeMajors) ELSE major_num
ReturnedMajor == IF major_num = 0 THEN TakenMajor ELSE 0
MajorFree == IF major_num = 0 THEN FreeMajors # {} ELSE major_num \in FreeMajors

(* The call at which IS_create_device fails, "ok" if none does.            *)
Outcome(f) == IF f \in {"gd", "start", "ok"} /\ ~MajorFree THEN "major" ELSE f

(* alloc_disk_node comes before everything of stackbd, add_disk after it.  *)
DiskAfter(f) == CASE f \in {"queues", "mq", "disk"} -> "null"
                  [] f \in {"stack_queue", "major", "gd"} -> "alloc"
                  [] OTHER -> "added"

(* IS_register_block_device returns 0 when the backup disk's gendisk       *)
(* cannot be allocated: it leaves before it sets err.                      *)
Returns0(f) == f \in {"ok", "gd"}

(* stackbd once its gendisk was allocated or not, and stackbd_start failed *)
(* or not; nothing clears is_active.                                       *)
stackbd_start(f) == [is_active |-> f = "ok" \/ stackbd.is_active,
                     thread |-> f = "ok" \/ stackbd.thread, gd |-> f # "gd"]

(* What IS_register_block_device leaves of the backup disk.                *)
IS_register_block_device(f) ==
    CASE f \in {"queues", "mq", "disk", "stack_queue"} ->
            UNCHANGED <<stackbd, major_num, held>>
      [] f = "major" -> major_num' = -1 /\ UNCHANGED <<stackbd, held>>
      [] OTHER ->
            /\ major_num' = ReturnedMajor
            /\ held' = IF f = "gd" THEN (held \cup {TakenMajor}) \ {ReturnedMajor}
                       ELSE held \cup {TakenMajor}
            /\ stackbd' = stackbd_start(f)

(* IS_create_device, from the name to the state: a device that fails after *)
(* IS_setup_queues has its queues freed and keeps the pointer.             *)
IS_create_device(d, f) ==
    /\ file' = [file EXCEPT ![d].file_name = d,
                   ![d].queues = IF f = "queues" THEN "null"
                                 ELSE IF Returns0(f) THEN "live" ELSE "freed",
                   ![d].disk = DiskAfter(f),
                   ![d].state = IF Returns0(f) THEN "RUNNING" ELSE @,
                   ![d].waking = Returns0(f)]
    /\ IS_register_block_device(f)
    /\ UNCHANGED <<up, loaded, session, trigger, NUM_CB>>

(* The write of the device: ok is its result.  IS_init_hctx reads the      *)
(* connections of the session.                                             *)
device_attr_store(d, ok) ==
    IF IS_file_find(d, d)
    THEN ~ok /\ UNCHANGED lifeVars
    ELSE \E f \in (CreateFaults \cap Faults) \cup {"ok"} :
            /\ ok = Returns0(Outcome(f))
            /\ IF session[file[d].host].conns THEN IS_create_device(d, Outcome(f)) ELSE Oops

(* Mutant: the thread is not woken. *)
wake_up_process_not(d) ==
    /\ up /\ file[d].made /\ file[d].waking
    /\ file' = [file EXCEPT ![d].waking = FALSE]
    /\ UNCHANGED <<up, loaded, session, trigger, NUM_CB, stackbd, major_num, held>>

(* The end of IS_create_device, ten seconds later. *)
wake_up_process(d) ==
    /\ up /\ file[d].made /\ file[d].waking
    /\ file' = [file EXCEPT ![d].waking = FALSE]
    /\ trigger' = [trigger EXCEPT ![file[d].host] = IF @ = "created" THEN "awake" ELSE @]
    /\ UNCHANGED <<up, loaded, session, NUM_CB, stackbd, major_num, held>>

(* Mutant: the disk is not looked at before it is released. *)
Releasable_any(d) ==
    /\ file[d].disk = "added" /\ file[d].queues = "live"
    /\ stackbd.gd /\ (stackbd.is_active => stackbd.thread)

(* Everything that IS_destroy_device releases of a device with a disk is   *)
(* there to be released; is_active is never cleared.                       *)
Releasable(d) ==
    file[d].disk # "null" =>
        /\ file[d].disk = "added" /\ file[d].queues = "live"
        /\ stackbd.gd /\ (stackbd.is_active => stackbd.thread)

(* Mutant: the thread of the backup disk is not stopped. *)
IS_unregister_block_device_thread ==
    stackbd' = [stackbd EXCEPT !.gd = FALSE] /\ held' = held \ {major_num}

IS_unregister_block_device ==
    /\ stackbd' = [stackbd EXCEPT !.thread = FALSE, !.gd = FALSE]
    /\ held' = held \ {major_num}

IS_destroy_device(d) ==
    IF file[d].disk = "null" THEN UNCHANGED <<stackbd, held>>
    ELSE IS_unregister_block_device

(* rmdir of a device: IS_destroy_device and the end of its IS_file.        *)
IS_device_drop(d) ==
    IF ~Releasable(d) THEN Oops
    ELSE /\ IS_destroy_device(d)
         /\ file' = [file EXCEPT ![d] = NoFile]
         /\ UNCHANGED <<up, loaded, session, trigger, NUM_CB, major_num>>
=============================================================================
