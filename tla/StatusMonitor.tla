---------------------------- MODULE StatusMonitor ----------------------------
(***************************************************************************)
(* The status monitor, etc/rpc.statd, with what etc/rpc.lockd does as its  *)
(* client (sm_monitor.c, mond and contact_monitor of prot_lock.c).         *)
(*                                                                         *)
(* statd keeps an empty file per monitored host in CURRENT.  When it comes *)
(* up it moves these files to BACKUP, one rename at a time, and tells the  *)
(* statd of each host in BACKUP that this machine has been down; a host    *)
(* that was told is removed from BACKUP, one that could not be reached is  *)
(* tried again at every SIGALRM.  The machine may crash between any two    *)
(* system calls.  Files survive, memory does not.                          *)
(*                                                                         *)
(* lockd asks statd to monitor a host before it grants or requests a lock  *)
(* there, once per host and procedure, and remembers that it asked.  Its   *)
(* calls are repeated until a reply comes, so that statd may execute them  *)
(* more than once.  Another client monitors hosts and lets go of them.     *)
(*                                                                         *)
(* Abstracted: a request of lockd and its reply are one step, in which     *)
(* statd executes the call; sm_stat answers nothing; what lockd does with  *)
(* a notice; crash_notice and recovery_notice, which nothing calls; calls  *)
(* that fail although the disk and the network are up.                     *)
(***************************************************************************)
EXTENDS Integers, Sequences, FiniteSets, SequencesExt

CONSTANTS
    Host,           \* the hosts that are monitored
    LockdReqs,      \* what lockd monitors: a set of <<host, my_proc>>
    OtherReqs,      \* what the other client monitors
    DirEntries,     \* what getdirentries(fd, buf, 8192, ..) can return
    MaxState,       \* bound: real or not, only below this number
    MaxPid,         \* bound: incarnations of lockd
    MaxCount,       \* bound: a request is repeated below this count only
    NoReq, NoHost

Reqs == LockdReqs \cup OtherReqs
Phase == {"down", "rename", "notify", "serve"}

ASSUME MonitorConstants ==
    /\ LockdReqs \subseteq Host \X {"PRIV_CRASH", "PRIV_RECOVERY"}
    /\ OtherReqs \subseteq Host \X {"OTHER"}
    /\ DirEntries \in Nat \ {0}
    /\ MaxState \in Nat /\ MaxPid \in Nat \ {0} /\ MaxCount \in Nat \ {0}
    /\ NoReq \notin Reqs /\ NoHost \notin Host

VARIABLES
    current, backup,    \* the files in CURRENT and BACKUP
    state,              \* the number in STATE
    statd,              \* what statd is doing
    LOCAL_STATE,
    dir,                \* the directory entries that statd_init works on
    told,               \* the host it has told and not yet removed from BACKUP
    monitor_q,          \* the requests: [req, pid, prev]
    record_q,           \* how often each host was recorded, 0 if not at all
    recovery_q, alarm,  \* hosts to try again; is SIGALRM to come?
    lockd,              \* "down", "run", or a step of cancel_mon
    pid,                \* lockd's process id
    me,                 \* table_me: what lockd thinks is monitored
    asking,             \* the request lockd has sent
    owed,               \* history: hosts recorded at a crash, not yet told
    sent, past,         \* history: the largest number sent; before the crash
    alone               \* history: statd went down alone since lockd came up

files == <<current, backup, state>>
queues == <<monitor_q, record_q, recovery_q, alarm>>
lockdvars == <<lockd, pid, me, asking>>
history == <<owed, sent, past, alone>>
vars == <<files, statd, LOCAL_STATE, dir, told, queues, lockdvars, history>>

Empty == [h \in Host |-> 0]

Init ==
    /\ current = {} /\ backup = {} /\ state = 0
    /\ statd = "down" /\ LOCAL_STATE = 0 /\ dir = {} /\ told = NoHost
    /\ monitor_q = << >> /\ record_q = Empty /\ recovery_q = {} /\ alarm = FALSE
    /\ lockd = "down" /\ pid = 0 /\ me = {} /\ asking = NoReq
    /\ owed = {} /\ sent = 0 /\ past = 0 /\ alone = FALSE

-----------------------------------------------------------------------------
(* statd_init                                                              *)

(* Mutant: an odd number is used again.                                    *)
NextState_Odd(n) == IF n % 2 = 0 THEN n + 1 ELSE n

(* The next odd number, written back to STATE; then CURRENT is read.       *)
NextState(n) == IF n % 2 = 0 THEN n + 1 ELSE n + 2

(* One getdirentries: all entries, or as many as fit.                      *)
ReadDir(d) ==
    dir' \in {S \in SUBSET d : Cardinality(S) = Min({Cardinality(d), DirEntries})}

StartInit ==
    /\ LOCAL_STATE' = NextState(state)
    /\ state' = NextState(state)
    /\ ReadDir(current)
    /\ statd' = "rename"

Boot ==
    /\ statd = "down"
    /\ StartInit
    /\ UNCHANGED <<current, backup, told, queues, lockdvars, history>>

Rename(h) ==
    /\ statd = "rename" /\ h \in dir
    /\ dir' = dir \ {h}
    /\ current' = current \ {h}
    /\ backup' = backup \cup {h}
    /\ UNCHANGED <<state, statd, LOCAL_STATE, told, queues, lockdvars, history>>

ReadBackup ==
    /\ statd = "rename" /\ dir = {}
    /\ ReadDir(backup)
    /\ statd' = "notify"
    /\ UNCHANGED <<files, LOCAL_STATE, told, queues, lockdvars, history>>

(* statd_call_statd returns 0 for the hosts of S: the notice went out,     *)
(* though no reply is waited for (the timeout is 0).  Where it returns -1, *)
(* the notice may have gone out all the same.                              *)
Notified(S) ==
    /\ owed' = owed \ S
    /\ \/ sent' = Max({sent, LOCAL_STATE})
       \/ S = {} /\ sent' = sent
    /\ UNCHANGED <<past, alone>>

CallOK(h) ==
    /\ statd = "notify" /\ told = NoHost /\ h \in dir
    /\ Notified({h})
    /\ dir' = dir \ {h}
    /\ told' = h
    /\ UNCHANGED <<files, statd, LOCAL_STATE, queues, lockdvars>>

Unlink ==
    /\ statd = "notify" /\ told # NoHost
    /\ backup' = backup \ {told}
    /\ told' = NoHost
    /\ UNCHANGED <<current, state, statd, LOCAL_STATE, dir, queues, lockdvars, history>>

(* Mutant: the file is removed whatever the call returns.                  *)
CallFails_Unlinks(h) ==
    /\ statd = "notify" /\ told = NoHost /\ h \in dir
    /\ dir' = dir \ {h}
    /\ backup' = backup \ {h}
    /\ recovery_q' = recovery_q \cup {h}
    /\ Notified({})
    /\ UNCHANGED <<current, state, statd, LOCAL_STATE, told, monitor_q, record_q, alarm,
                   lockdvars>>

CallFails(h) ==
    /\ statd = "notify" /\ told = NoHost /\ h \in dir
    /\ dir' = dir \ {h}
    /\ recovery_q' = recovery_q \cup {h}
    /\ Notified({})
    /\ UNCHANGED <<files, statd, LOCAL_STATE, told, monitor_q, record_q, alarm, lockdvars>>

(* Pending for sm_crash's caller as well: its reply is sent now.           *)
InitDone ==
    /\ statd = "notify" /\ told = NoHost /\ dir = {}
    /\ statd' = "serve"
    /\ alarm' = (recovery_q # {})
    /\ UNCHANGED <<files, LOCAL_STATE, dir, told, monitor_q, record_q, recovery_q,
                   lockdvars, history>>

(* Mutant: the alarm is not set again.                                     *)
sm_try_Once(S) ==
    /\ statd = "serve" /\ alarm
    /\ S \subseteq recovery_q
    /\ Notified(S)
    /\ recovery_q' = recovery_q \ S
    /\ alarm' = FALSE
    /\ UNCHANGED <<files, statd, LOCAL_STATE, dir, told, monitor_q, record_q, lockdvars>>

(* SIGALRM: the hosts of S can be reached now.  Their files stay in        *)
(* BACKUP.                                                                 *)
sm_try(S) ==
    /\ statd = "serve" /\ alarm
    /\ S \subseteq recovery_q
    /\ Notified(S)
    /\ recovery_q' = recovery_q \ S
    /\ alarm' = (recovery_q' # {})
    /\ UNCHANGED <<files, statd, LOCAL_STATE, dir, told, monitor_q, record_q, lockdvars>>

-----------------------------------------------------------------------------
(* insert_mon, delete_mon and record_name                                  *)

(* record_name(h, 1) and record_name(h, 0).                                *)
Record(h) ==
    /\ record_q' = [record_q EXCEPT ![h] = @ + 1]
    /\ current' = IF record_q[h] = 0 THEN current \cup {h} ELSE current

(* Mutants: a host that is not recorded is not looked for; the file goes   *)
(* with the first request that ends.                                       *)
Unrecord_Unknown(h) ==
    /\ record_q' = [record_q EXCEPT ![h] = @ - 1]
    /\ current' = IF record_q[h] = 1 THEN current \ {h} ELSE current
Unrecord_First(h) ==
    /\ record_q' = [record_q EXCEPT ![h] = IF @ = 0 THEN 0 ELSE @ - 1]
    /\ current' = current \ {h}

Unrecord(h) ==
    /\ record_q' = [record_q EXCEPT ![h] = IF @ = 0 THEN 0 ELSE @ - 1]
    /\ current' = IF record_q[h] = 1 THEN current \ {h} ELSE current

(* The list is a sequence; an entry's prev says whether its prev pointer   *)
(* is set.  It then points to the entry before it: insert_mon leaves it    *)
(* NULL in an entry that it puts behind another one for the same host.     *)
Same(h) == {k \in 1 .. Len(monitor_q) : monitor_q[k].req[1] = h}

HasPrev(q) == IF q = << >> THEN q ELSE [q EXCEPT ![1].prev = TRUE]

Inserted(r, n) ==
    LET new == [req |-> r, pid |-> n, prev |-> FALSE]
        first == Min(Same(r[1]))
    IN IF Same(r[1]) = {} THEN <<new>> \o HasPrev(monitor_q)
       ELSE IF monitor_q[first].req = r THEN monitor_q
       ELSE SubSeq(monitor_q, 1, first) \o <<new>>
            \o HasPrev(SubSeq(monitor_q, first + 1, Len(monitor_q)))

(* Take out the entries for requests in R, in one walk down the list: what *)
(* is kept so far, whether the last entry was taken out, and its prev,     *)
(* which its successor inherits.  An entry without a prev pointer is taken *)
(* for the first one: monitor_q is set to its successor.                   *)
Take(acc, e, R) ==
    LET prev == IF acc.taken THEN acc.prev ELSE e.prev IN
    IF e.req \in R
    THEN [kept |-> IF prev THEN acc.kept ELSE << >>, taken |-> TRUE, prev |-> prev]
    ELSE [kept |-> Append(acc.kept, [e EXCEPT !.prev = prev]), taken |-> FALSE, prev |-> FALSE]

Walk(R) ==
    LET walk[k \in 0 .. Len(monitor_q)] ==
            IF k = 0 THEN [kept |-> << >>, taken |-> FALSE, prev |-> FALSE]
            ELSE Take(walk[k - 1], monitor_q[k], R)
    IN walk

Deleted(R) == Walk(R)[Len(monitor_q)].kept

insert_mon(r, n) ==
    /\ statd = "serve"
    /\ record_q[r[1]] < MaxCount
    /\ Record(r[1])
    /\ monitor_q' = Inserted(r, n)
    /\ UNCHANGED <<backup, state, statd, LOCAL_STATE, dir, told, recovery_q, alarm, history>>

sm_unmon(r) ==
    /\ statd = "serve"
    /\ Unrecord(r[1])
    /\ monitor_q' = Deleted({r})
    /\ UNCHANGED <<backup, state, statd, LOCAL_STATE, dir, told, recovery_q, alarm,
                   lockdvars, history>>

sm_unmon_all(proc) ==
    /\ statd = "serve"
    /\ monitor_q' = Deleted({q \in Reqs : q[2] = proc})
    /\ UNCHANGED <<files, statd, LOCAL_STATE, dir, told, record_q, recovery_q, alarm, history>>

(* sm_simu_crash: nothing to do if nothing is recorded.                    *)
sm_crash ==
    /\ statd = "serve"
    /\ state < MaxState
    /\ IF record_q = Empty
       THEN UNCHANGED <<files, statd, LOCAL_STATE, dir, queues, owed, past>>
       ELSE /\ StartInit
            /\ record_q' = Empty /\ recovery_q' = {} /\ alarm' = FALSE
            /\ owed' = owed \cup current
            /\ past' = sent
            /\ UNCHANGED <<current, backup, monitor_q>>
    /\ UNCHANGED <<told, sent, alone>>

-----------------------------------------------------------------------------
(* lockd                                                                   *)

LockdStarts ==
    /\ lockd = "down" /\ pid < MaxPid
    /\ lockd' = "cancelC"
    /\ pid' = pid + 1
    /\ UNCHANGED <<files, statd, LOCAL_STATE, dir, told, queues, me, asking, history>>

(* cancel_mon: each call is made again while no reply comes; the first one *)
(* ends it when statd is not there.                                        *)
CancelCrash ==
    /\ lockd = "cancelC"
    /\ sm_unmon_all("PRIV_CRASH")
    /\ lockd' \in {"cancelC", "cancelR"}
    /\ UNCHANGED <<pid, me, asking>>

(* Mutant: the first call is made a second time.                           *)
CancelRecovery_Crash ==
    /\ lockd = "cancelR"
    /\ sm_unmon_all("PRIV_CRASH")
    /\ lockd' \in {"cancelR", "simu"}
    /\ UNCHANGED <<pid, me, asking>>

CancelRecovery ==
    /\ lockd = "cancelR"
    /\ sm_unmon_all("PRIV_RECOVERY")
    /\ lockd' \in {"cancelR", "simu"}
    /\ UNCHANGED <<pid, me, asking>>

(* The reply to a crash that is simulated comes at InitDone.  Until then   *)
(* statd answers nothing, so that it makes no difference to it whether     *)
(* lockd is still in this call or already asks for something.              *)
SimuCrash ==
    /\ lockd = "simu"
    /\ sm_crash
    /\ lockd' \in {"simu", "run"}
    /\ UNCHANGED <<pid, me, asking>>

CancelFails ==
    /\ statd = "down"
    /\ \/ lockd \in {"cancelC", "simu"} /\ lockd' = "run"
       \/ lockd = "cancelR" /\ lockd' = "simu"
    /\ UNCHANGED <<files, statd, LOCAL_STATE, dir, told, queues, pid, me, asking, history>>

(* mond: ask, unless table_me has it.                                      *)
Ask(r) ==
    /\ lockd = "run" /\ asking = NoReq /\ r \notin me
    /\ asking' = r
    /\ UNCHANGED <<files, statd, LOCAL_STATE, dir, told, queues, lockd, pid, me, history>>

(* sm_mon is executed; the reply comes, or it does not and stat_mon tries  *)
(* again.                                                                  *)
Asked ==
    /\ asking # NoReq
    /\ insert_mon(asking, pid)
    /\ \/ asking' = NoReq /\ me' = me \cup {asking}
       \/ UNCHANGED <<asking, me>>
    /\ UNCHANGED <<lockd, pid>>

AskFails ==
    /\ asking # NoReq /\ statd = "down"
    /\ asking' = NoReq
    /\ UNCHANGED <<files, statd, LOCAL_STATE, dir, told, queues, lockd, pid, me, history>>

(* The other client; it calls as often as it likes.                        *)
OtherMons(r) == insert_mon(r, 0) /\ UNCHANGED lockdvars
OtherUnmons(r) == sm_unmon(r)

-----------------------------------------------------------------------------
(* Crashes                                                                 *)

LockdLost ==
    /\ lockd' = "down" /\ me' = {} /\ asking' = NoReq
    /\ UNCHANGED pid

StatdLost ==
    /\ statd' = "down" /\ LOCAL_STATE' = 0 /\ dir' = {} /\ told' = NoHost
    /\ monitor_q' = << >> /\ record_q' = Empty /\ recovery_q' = {} /\ alarm' = FALSE
    /\ owed' = owed \cup current
    /\ past' = sent
    /\ UNCHANGED <<files, sent>>

MachineCrash ==
    /\ state < MaxState
    /\ StatdLost
    /\ LockdLost
    /\ alone' = FALSE

StatdCrash ==
    /\ statd # "down" /\ state < MaxState
    /\ StatdLost
    /\ alone' = (lockd # "down")
    /\ UNCHANGED lockdvars

LockdCrash ==
    /\ lockd # "down" /\ pid < MaxPid
    /\ LockdLost
    /\ alone' = FALSE
    /\ UNCHANGED <<files, statd, LOCAL_STATE, dir, told, queues, owed, sent, past>>

-----------------------------------------------------------------------------
InitStep ==
    \/ Boot \/ ReadBackup \/ Unlink \/ InitDone
    \/ \E h \in Host : Rename(h) \/ CallOK(h) \/ CallFails(h)

LockdStep ==
    \/ LockdStarts \/ CancelCrash \/ CancelRecovery \/ SimuCrash \/ CancelFails
    \/ \E r \in LockdReqs : Ask(r)
    \/ Asked \/ AskFails

Next ==
    \/ InitStep
    \/ \E S \in SUBSET Host : sm_try(S)
    \/ LockdStep
    \/ \E r \in OtherReqs : OtherMons(r) \/ OtherUnmons(r)
    \/ MachineCrash \/ StatdCrash \/ LockdCrash

Spec == Init /\ [][Next]_vars

(* A statd that is there gets through its initialization; a host that is   *)
(* tried again and again can be reached at last.  Nothing is assumed about *)
(* who starts statd.                                                       *)
FairSpec ==
    /\ Spec
    /\ WF_vars(statd # "down" /\ InitStep)
    /\ \A h \in Host : SF_vars(\E S \in SUBSET Host : h \in S /\ sm_try(S))

-----------------------------------------------------------------------------
(* Correctness                                                             *)

(* The types of the variables.                                             *)
TypeOK ==
    /\ current \subseteq Host /\ backup \subseteq Host
    /\ state \in Nat /\ LOCAL_STATE \in Nat
    /\ statd \in Phase /\ dir \subseteq Host /\ told \in Host \cup {NoHost}
    /\ monitor_q \in Seq([req : Reqs, pid : Nat, prev : BOOLEAN])
    /\ record_q \in [Host -> Nat] /\ recovery_q \subseteq Host /\ alarm \in BOOLEAN
    /\ lockd \in {"down", "cancelC", "cancelR", "simu", "run"}
    /\ pid \in Nat /\ me \subseteq LockdReqs /\ asking \in LockdReqs \cup {NoReq}
    /\ owed \subseteq Host /\ sent \in Nat /\ past \in Nat /\ alone \in BOOLEAN

(* A host that was recorded when the machine went down, or when lockd had  *)
(* statd pretend so, has its file until it has been told: the renames, the *)
(* calls and the unlinks of statd_init are in an order that no crash among *)
(* them makes lose a host.                                                 *)
NoHostForgotten == owed \subseteq current \cup backup

(* The number in a notice is odd and larger than any that was sent before  *)
(* the crash it is about: a peer never takes it for an old one.            *)
FreshState ==
    statd \in {"notify", "serve"} => LOCAL_STATE % 2 = 1 /\ LOCAL_STATE > past

(* What is recorded has its file in CURRENT (sm_statd.c:11, "it creates an *)
(* entry in "current" directory for each site that it monitors"), so that  *)
(* record_name's unlink, whose failure would end statd, finds it; and so   *)
(* have the sites that lockd monitors, once cancel_mon is done.            *)
RecordsOnDisk ==
    statd = "serve" =>
        /\ \A h \in Host : record_q[h] > 0 => h \in current
        /\ lockd = "run" =>
              \A k \in 1 .. Len(monitor_q) :
                  monitor_q[k].req \in LockdReqs => monitor_q[k].req[1] \in current

(* send_notice, and the check of the pid in proc_priv_crash and            *)
(* proc_priv_recovery: the requests that lockd hears of when h changes.    *)
Heard(h) ==
    {monitor_q[k].req : k \in {j \in Same(h) : monitor_q[j].pid = pid}}

(* Whatever lockd remembers to have asked for, statd will tell it, and     *)
(* under the pid that lockd now has; unless statd went down alone, which   *)
(* lockd does not notice (hash.c:135, "we never free up monitor entry").   *)
NoticeReaches ==
    lockd = "run" /\ statd = "serve" /\ ~alone => \A r \in me : r \in Heard(r[1])

(* Every host that is owed a notice gets one, unless statd goes down and   *)
(* is never started again: rc starts it when the machine comes up, nobody  *)
(* does when it dies alone.                                                *)
EveryoneTold ==
    \/ <>[](statd = "down")
    \/ \A h \in Host : h \in owed ~> h \notin owed
=============================================================================
