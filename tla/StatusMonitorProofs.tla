------------------------ MODULE StatusMonitorProofs ------------------------
(***************************************************************************)
(* Proofs about StatusMonitor, for any set of hosts that one               *)
(* getdirentries can return, any requests and any bounds.                  *)
(***************************************************************************)
EXTENDS StatusMonitor, FiniteSetTheorems, SequenceTheorems,
        WellFoundedInduction, TLAPS

(* One getdirentries returns all the hosts there are.                      *)
DirectoriesFit == IsFiniteSet(Host) /\ Cardinality(Host) <= DirEntries

(* The types of the variables that the files depend on.                    *)
FileTypes ==
    /\ current \subseteq Host /\ backup \subseteq Host /\ owed \subseteq Host
    /\ dir \subseteq Host /\ told \in Host \cup {NoHost}
    /\ statd \in Phase

(* What lockd asks for is one of its requests.                             *)
AskInv == asking \in LockdReqs \cup {NoReq}

(* Who has been told and is still in BACKUP is owed nothing; while CURRENT *)
(* is moved, all of it is still to be moved; and when that is done, who is *)
(* owed a notice is in BACKUP, where record_name does not come.            *)
FileInv ==
    /\ told \notin owed
    /\ told # NoHost => statd = "notify"
    /\ statd = "rename" => current = dir
    /\ statd \in {"notify", "serve"} => owed \subseteq backup
    /\ NoHostForgotten

(* The number in STATE is at least every number that was sent.             *)
StateInv ==
    /\ state \in Nat /\ sent \in Nat /\ past \in Nat /\ LOCAL_STATE \in Nat
    /\ sent <= state /\ past <= sent
    /\ statd # "down" => LOCAL_STATE = state /\ state % 2 = 1 /\ past < state

-----------------------------------------------------------------------------
(* The larger of two numbers.                                              *)
LEMMA MaxOfTwo ==
    ASSUME NEW a \in Nat, NEW b \in Nat
    PROVE  Max({a, b}) \in {a, b} /\ Max({a, b}) >= a /\ Max({a, b}) >= b
<1>1. \E x \in {a, b} : \A y \in {a, b} : x >= y
  <2>1. CASE a >= b  BY <2>1
  <2>2. CASE b >= a  BY <2>2
  <2>. QED  BY <2>1, <2>2
<1>. QED  BY <1>1 DEF Max

(* The smaller of two numbers, when the first is the smaller one.          *)
LEMMA MinOfTwo ==
    ASSUME NEW a \in Nat, NEW b \in Nat, a <= b
    PROVE  Min({a, b}) = a
<1>1. \A x \in {a, b} : (\A y \in {a, b} : x <= y) => x = a
  OBVIOUS
<1>2. \E x \in {a, b} : \A y \in {a, b} : x <= y
  OBVIOUS
<1>. QED  BY <1>1, <1>2 DEF Min

(* getdirentries returns all of a directory.                               *)
LEMMA ReadsAll ==
    ASSUME DirectoriesFit, NEW d \in SUBSET Host, ReadDir(d)
    PROVE  dir' = d
<1>1. IsFiniteSet(d) /\ Cardinality(d) \in Nat /\ Cardinality(d) <= Cardinality(Host)
  BY FS_Subset, FS_CardinalityType DEF DirectoriesFit
<1>2. Cardinality(Host) \in Nat /\ DirEntries \in Nat
  BY FS_CardinalityType, MonitorConstants DEF DirectoriesFit
<1>3. Min({Cardinality(d), DirEntries}) = Cardinality(d)
  BY <1>1, <1>2, MinOfTwo DEF DirectoriesFit
<1>4. dir' \subseteq d /\ Cardinality(dir') = Cardinality(d)
  BY <1>3 DEF ReadDir
<1>. QED  BY <1>1, <1>4, FS_Subset

(* The next number is odd and larger.                                      *)
LEMMA NextStateOdd ==
    ASSUME NEW n \in Nat
    PROVE  NextState(n) \in Nat /\ NextState(n) > n /\ NextState(n) % 2 = 1
BY DEF NextState

-----------------------------------------------------------------------------
(* The files                                                               *)

FileVars == <<current, backup, owed, dir, told, statd>>

LEMMA FileInit == Init => FileTypes /\ FileInv
BY MonitorConstants DEF Init, FileTypes, FileInv, NoHostForgotten, Phase

LEMMA ReqHost ==
    ASSUME NEW r \in Reqs
    PROVE  r[1] \in Host
BY MonitorConstants DEF Reqs

(* statd_init from its start to the last call.                             *)
LEMMA InitStepFiles ==
    ASSUME DirectoriesFit, FileTypes, FileInv, InitStep
    PROVE  (FileTypes /\ FileInv)'
<1>. USE DEF FileTypes, FileInv, NoHostForgotten, Phase
<1>1. CASE Boot
  <2>1. dir' = current  BY <1>1, ReadsAll DEF Boot, StartInit
  <2>. QED  BY <1>1, <2>1 DEF Boot, StartInit, history
<1>2. CASE ReadBackup
  <2>1. dir' = backup  BY <1>2, ReadsAll DEF ReadBackup
  <2>. QED  BY <1>2, <2>1 DEF ReadBackup, files, history
<1>3. CASE Unlink
  BY <1>3, MonitorConstants DEF Unlink, history
<1>4. CASE InitDone
  BY <1>4 DEF InitDone, files, history
<1>5. ASSUME NEW h \in Host, Rename(h) PROVE (FileTypes /\ FileInv)'
  BY <1>5 DEF Rename, history
<1>6. ASSUME NEW h \in Host, CallOK(h) PROVE (FileTypes /\ FileInv)'
  BY <1>6 DEF CallOK, Notified, files
<1>7. ASSUME NEW h \in Host, CallFails(h) PROVE (FileTypes /\ FileInv)'
  BY <1>7 DEF CallFails, Notified, files
<1>. QED  BY <1>1, <1>2, <1>3, <1>4, <1>5, <1>6, <1>7 DEF InitStep

(* The calls that clients make of statd.                                   *)
LEMMA insert_monFiles ==
    ASSUME FileTypes, FileInv, NEW r \in Reqs, NEW n, insert_mon(r, n)
    PROVE  (FileTypes /\ FileInv)'
<1>1. r[1] \in Host  BY ReqHost
<1>2. current' \in {current, current \cup {r[1]}}
  BY DEF insert_mon, Record
<1>. QED
  BY <1>1, <1>2 DEF FileTypes, FileInv, NoHostForgotten, Phase, insert_mon, history

LEMMA sm_unmonFiles ==
    ASSUME FileTypes, FileInv, NEW r \in Reqs, sm_unmon(r)
    PROVE  (FileTypes /\ FileInv)'
<1>1. current' \in {current, current \ {r[1]}}
  BY DEF sm_unmon, Unrecord
<1>. QED
  BY <1>1 DEF FileTypes, FileInv, NoHostForgotten, Phase, sm_unmon, history

LEMMA sm_crashFiles ==
    ASSUME DirectoriesFit, FileTypes, FileInv, sm_crash
    PROVE  (FileTypes /\ FileInv)'
<1>. USE DEF FileTypes, FileInv, NoHostForgotten, Phase
<1>1. CASE record_q = Empty
  BY <1>1 DEF sm_crash, files
<1>2. CASE record_q # Empty
  <2>1. StartInit /\ owed' = owed \cup current /\ UNCHANGED <<current, backup, told>>
    BY <1>2 DEF sm_crash
  <2>2. dir' = current  BY <2>1, ReadsAll DEF StartInit
  <2>3. statd = "serve" /\ told = NoHost  BY DEF sm_crash
  <2>. QED  BY <2>1, <2>2, <2>3, MonitorConstants DEF StartInit
<1>. QED  BY <1>1, <1>2

LEMMA FileUnchanged ==
    ASSUME FileTypes, FileInv, UNCHANGED FileVars
    PROVE  (FileTypes /\ FileInv)'
BY DEF FileTypes, FileInv, NoHostForgotten, FileVars

LEMMA LockdStepFiles ==
    ASSUME DirectoriesFit, FileTypes, FileInv, AskInv, LockdStep
    PROVE  (FileTypes /\ FileInv)'
<1>. USE DEF FileVars, files, history
<1>1. CASE LockdStarts
  BY <1>1, FileUnchanged DEF LockdStarts
<1>2. CASE CancelCrash
  BY <1>2, FileUnchanged DEF CancelCrash, sm_unmon_all
<1>3. CASE CancelRecovery
  BY <1>3, FileUnchanged DEF CancelRecovery, sm_unmon_all
<1>4. CASE SimuCrash
  BY <1>4, sm_crashFiles DEF SimuCrash
<1>5. CASE CancelFails
  BY <1>5, FileUnchanged DEF CancelFails
<1>6. ASSUME NEW r \in LockdReqs, Ask(r) PROVE (FileTypes /\ FileInv)'
  BY <1>6, FileUnchanged DEF Ask
<1>7. CASE Asked
  <2>1. asking \in Reqs  BY <1>7 DEF Asked, AskInv, Reqs
  <2>. QED  BY <1>7, <2>1, insert_monFiles DEF Asked
<1>8. CASE AskFails
  BY <1>8, FileUnchanged DEF AskFails
<1>. QED  BY <1>1, <1>2, <1>3, <1>4, <1>5, <1>6, <1>7, <1>8 DEF LockdStep

LEMMA StatdLostFiles ==
    ASSUME FileTypes, FileInv, StatdLost
    PROVE  (FileTypes /\ FileInv)'
BY MonitorConstants DEF FileTypes, FileInv, NoHostForgotten, Phase, StatdLost, files

LEMMA AskStep ==
    ASSUME AskInv, [Next]_vars
    PROVE  AskInv'
<1>. USE DEF AskInv
<1>1. CASE InitStep
  BY <1>1 DEF InitStep, Boot, ReadBackup, Unlink, InitDone, Rename, CallOK, CallFails, lockdvars
<1>2. ASSUME NEW S \in SUBSET Host, sm_try(S) PROVE AskInv'
  BY <1>2 DEF sm_try, lockdvars
<1>3. CASE LockdStep
  BY <1>3 DEF LockdStep, LockdStarts, CancelCrash, CancelRecovery, SimuCrash, CancelFails,
              Ask, Asked, AskFails
<1>4. ASSUME NEW r \in OtherReqs, OtherMons(r) \/ OtherUnmons(r) PROVE AskInv'
  BY <1>4 DEF OtherMons, OtherUnmons, sm_unmon, lockdvars
<1>5. CASE MachineCrash \/ StatdCrash \/ LockdCrash
  BY <1>5 DEF MachineCrash, StatdCrash, LockdCrash, LockdLost, lockdvars
<1>6. CASE UNCHANGED vars
  BY <1>6 DEF vars, lockdvars
<1>. QED  BY <1>1, <1>2, <1>3, <1>4, <1>5, <1>6 DEF Next

LEMMA FileStep ==
    ASSUME DirectoriesFit, FileTypes, FileInv, AskInv, [Next]_vars
    PROVE  (FileTypes /\ FileInv)'
<1>1. CASE InitStep
  BY <1>1, InitStepFiles
<1>2. ASSUME NEW S \in SUBSET Host, sm_try(S) PROVE (FileTypes /\ FileInv)'
  BY <1>2 DEF sm_try, Notified, files, FileTypes, FileInv, NoHostForgotten, Phase
<1>3. CASE LockdStep
  BY <1>3, LockdStepFiles
<1>4. ASSUME NEW r \in OtherReqs, OtherMons(r) PROVE (FileTypes /\ FileInv)'
  <2>1. r \in Reqs  BY DEF Reqs
  <2>. QED  BY <1>4, <2>1, insert_monFiles DEF OtherMons
<1>5. ASSUME NEW r \in OtherReqs, OtherUnmons(r) PROVE (FileTypes /\ FileInv)'
  <2>1. r \in Reqs  BY DEF Reqs
  <2>. QED  BY <1>5, <2>1, sm_unmonFiles DEF OtherUnmons
<1>6. CASE MachineCrash \/ StatdCrash
  BY <1>6, StatdLostFiles DEF MachineCrash, StatdCrash
<1>7. CASE LockdCrash
  BY <1>7, FileUnchanged DEF LockdCrash, FileVars, files
<1>8. CASE UNCHANGED vars
  BY <1>8, FileUnchanged DEF vars, FileVars, files, history
<1>. QED  BY <1>1, <1>2, <1>3, <1>4, <1>5, <1>6, <1>7, <1>8 DEF Next

(* No crash, wherever it comes among the renames, the calls and the        *)
(* unlinks of statd_init, and no request of a client makes statd lose the  *)
(* file of a host that it still has to tell, as long as one getdirentries  *)
(* returns a whole directory.                                              *)
THEOREM HostsRemembered ==
    ASSUME DirectoriesFit
    PROVE  Spec => []NoHostForgotten
<1>1. Init => FileTypes /\ FileInv /\ AskInv
  BY FileInit DEF Init, AskInv
<1>2. FileTypes /\ FileInv /\ AskInv /\ [Next]_vars => (FileTypes /\ FileInv /\ AskInv)'
  BY FileStep, AskStep
<1>3. FileInv => NoHostForgotten
  BY DEF FileInv
<1>. QED  BY <1>1, <1>2, <1>3, PTL DEF Spec

-----------------------------------------------------------------------------
(* The state number                                                        *)

StateVars == <<state, sent, past, LOCAL_STATE, statd>>

LEMMA StateUnchanged ==
    ASSUME StateInv, UNCHANGED StateVars
    PROVE  StateInv'
BY DEF StateInv, StateVars

(* statd_init raises the number, in sm_crash too.                          *)
LEMMA StartInitState ==
    ASSUME StateInv, StartInit, sent' = sent, past' \in {past, sent}
    PROVE  StateInv'
<1>1. state \in Nat  BY DEF StateInv
<1>2. NextState(state) \in Nat /\ NextState(state) > state /\ NextState(state) % 2 = 1
  BY <1>1, NextStateOdd
<1>3. /\ LOCAL_STATE' = NextState(state) /\ state' = NextState(state)
      /\ statd' = "rename"
  BY DEF StartInit
<1>. QED  BY <1>2, <1>3 DEF StateInv

LEMMA NotifiedState ==
    ASSUME StateInv, NEW S, Notified(S), statd # "down", UNCHANGED <<state, LOCAL_STATE, statd>>
    PROVE  StateInv'
<1>1. Max({sent, LOCAL_STATE}) \in {sent, LOCAL_STATE} /\ Max({sent, LOCAL_STATE}) >= sent
  BY MaxOfTwo DEF StateInv
<1>2. sent' \in {sent, Max({sent, LOCAL_STATE})} /\ past' = past
  BY DEF Notified
<1>. QED  BY <1>1, <1>2 DEF StateInv

LEMMA StateStep ==
    ASSUME StateInv, [Next]_vars
    PROVE  StateInv'
<1>. USE DEF StateVars, files, history
<1>1. CASE InitStep
  <2>1. CASE Boot
    BY <2>1, StartInitState DEF Boot
  <2>2. CASE ReadBackup
    BY <2>2 DEF ReadBackup, StateInv
  <2>3. CASE Unlink
    BY <2>3, StateUnchanged DEF Unlink
  <2>4. CASE InitDone
    BY <2>4 DEF InitDone, StateInv
  <2>5. ASSUME NEW h \in Host, Rename(h) PROVE StateInv'
    BY <2>5, StateUnchanged DEF Rename
  <2>6. ASSUME NEW h \in Host, CallOK(h) PROVE StateInv'
    BY <2>6, NotifiedState DEF CallOK
  <2>7. ASSUME NEW h \in Host, CallFails(h) PROVE StateInv'
    BY <2>7, NotifiedState DEF CallFails
  <2>. QED  BY <1>1, <2>1, <2>2, <2>3, <2>4, <2>5, <2>6, <2>7 DEF InitStep
<1>2. ASSUME NEW S \in SUBSET Host, sm_try(S) PROVE StateInv'
  BY <1>2, NotifiedState DEF sm_try
<1>3. CASE LockdStep
  <2>1. CASE SimuCrash
    <3>1. CASE record_q = Empty
      BY <2>1, <3>1, StateUnchanged DEF SimuCrash, sm_crash
    <3>2. CASE record_q # Empty
      BY <2>1, <3>2, StartInitState DEF SimuCrash, sm_crash
    <3>. QED  BY <3>1, <3>2
  <2>2. CASE LockdStarts \/ CancelCrash \/ CancelRecovery \/ CancelFails \/ AskFails
    BY <2>2, StateUnchanged
       DEF LockdStarts, CancelCrash, CancelRecovery, CancelFails, AskFails, sm_unmon_all
  <2>3. ASSUME NEW r \in LockdReqs, Ask(r) PROVE StateInv'
    BY <2>3, StateUnchanged DEF Ask
  <2>4. CASE Asked
    BY <2>4, StateUnchanged DEF Asked, insert_mon
  <2>. QED  BY <1>3, <2>1, <2>2, <2>3, <2>4 DEF LockdStep
<1>4. ASSUME NEW r \in OtherReqs, OtherMons(r) \/ OtherUnmons(r) PROVE StateInv'
  BY <1>4, StateUnchanged DEF OtherMons, OtherUnmons, insert_mon, sm_unmon
<1>5. CASE MachineCrash \/ StatdCrash
  BY <1>5 DEF MachineCrash, StatdCrash, StatdLost, StateInv
<1>6. CASE LockdCrash
  BY <1>6, StateUnchanged DEF LockdCrash
<1>7. CASE UNCHANGED vars
  BY <1>7, StateUnchanged DEF vars
<1>. QED  BY <1>1, <1>2, <1>3, <1>4, <1>5, <1>6, <1>7 DEF Next

(* Every notice that statd sends carries an odd number, larger than all    *)
(* that went out before the crash it tells of, however often the machine   *)
(* went down in between.                                                   *)
THEOREM NoticesFresh == Spec => []FreshState
<1>1. Init => StateInv
  BY DEF Init, StateInv
<1>2. StateInv /\ [Next]_vars => StateInv'
  BY StateStep
<1>3. StateInv => FreshState
  BY DEF StateInv, FreshState
<1>. QED  BY <1>1, <1>2, <1>3, PTL DEF Spec

-----------------------------------------------------------------------------
(* The list of requests                                                    *)

(* lockd and the other client do not monitor the same host: an sm_unmon of *)
(* one would uncount a host that the other still monitors, and unlink an   *)
(* entry that insert_mon put behind one of the other's.                    *)
ClientsApart == \A r \in LockdReqs, s \in OtherReqs : r[1] # s[1]

Entry == [req : Reqs, pid : Nat, prev : BOOLEAN]

Start == [kept |-> << >>, taken |-> FALSE, prev |-> FALSE]

(* An entry of the other client is the first one or has its prev pointer.  *)
Firm(q) == \A k \in 2 .. Len(q) : q[k].req \in OtherReqs => q[k].prev

(* What is counted has its file, and nothing is counted before statd       *)
(* serves.                                                                 *)
RecordInv == \A h \in Host : record_q[h] > 0 => statd = "serve" /\ h \in current

(* What cancel_mon has removed before lockd runs; that the requests in the *)
(* list are then of the present lockd, counted, and all that it remembers. *)
LockdInv ==
    /\ lockd # "run" => me = {} /\ asking = NoReq
    /\ statd = "down" => monitor_q = << >>
    /\ Firm(monitor_q)
    /\ \A k \in 1 .. Len(monitor_q) :
          /\ lockd = "cancelR" => monitor_q[k].req[2] # "PRIV_CRASH"
          /\ lockd = "simu" => monitor_q[k].req \notin LockdReqs
          /\ lockd = "run" /\ monitor_q[k].req \in LockdReqs
                => monitor_q[k].pid = pid /\ record_q[monitor_q[k].req[1]] > 0
    /\ lockd = "run" /\ ~alone
          => \A r \in me : \E k \in 1 .. Len(monitor_q) :
                monitor_q[k].req = r /\ monitor_q[k].pid = pid

(* A set of numbers has a least element.                                   *)
LEMMA LeastNumber ==
    ASSUME NEW T \in SUBSET Nat, T # {}
    PROVE  \E n \in T : \A m \in T : n <= m
<1>1. PICK n \in T : \A m \in T : ~(<<m, n>> \in OpToRel(<, Nat))
  BY NatLessThanWellFounded, WFMin, Zenon
<1>2. \A m \in T : ~(m < n)
  BY <1>1 DEF OpToRel
<1>. QED  BY <1>2

(* A set that has 0 and with each number below n the next one has all the  *)
(* numbers up to n.                                                        *)
LEMMA UpTo ==
    ASSUME NEW n \in Nat, NEW S, 0 \in S, \A k \in 1 .. n : k - 1 \in S => k \in S
    PROVE  0 .. n \subseteq S
<1>. SUFFICES ASSUME (0 .. n) \ S # {} PROVE FALSE
  OBVIOUS
<1>. DEFINE T == (0 .. n) \ S
<1>0. T \in SUBSET Nat /\ T # {}
  OBVIOUS
<1>1. PICK m \in T : \A k \in T : m <= k
  <2>. HIDE DEF T
  <2>. QED  BY <1>0, LeastNumber
<1>2. m \in 1 .. n /\ m - 1 \in 0 .. n
  BY <1>1
<1>. QED  BY <1>1, <1>2

(* The walk down the list exists, and so is what its definition says.      *)
LEMMA WalkIs ==
    ASSUME monitor_q \in Seq(Entry), NEW R
    PROVE  /\ Walk(R)[0] = Start
           /\ \A k \in 1 .. Len(monitor_q) :
                 Walk(R)[k] = Take(Walk(R)[k - 1], monitor_q[k], R)
<1>. DEFINE Is(g, n) == g = [k \in 0 .. n |-> IF k = 0 THEN Start
                                             ELSE Take(g[k - 1], monitor_q[k], R)]
            S == {n \in Nat : \E g : Is(g, n)}
            N == Len(monitor_q)
<1>1. 0 \in S
  <2>1. Is([k \in 0 .. 0 |-> Start], 0)  OBVIOUS
  <2>. QED  BY <2>1
<1>2. ASSUME NEW n \in 1 .. N, n - 1 \in S PROVE n \in S
  <2>1. PICK g : Is(g, n - 1)  BY <1>2
  <2>. DEFINE h == [k \in 0 .. n |-> IF k = n THEN Take(g[n - 1], monitor_q[n], R) ELSE g[k]]
  <2>2. \A k \in 0 .. n : h[k] = IF k = 0 THEN Start ELSE Take(h[k - 1], monitor_q[k], R)
    <3>. SUFFICES ASSUME NEW k \in 0 .. n
                  PROVE  h[k] = IF k = 0 THEN Start ELSE Take(h[k - 1], monitor_q[k], R)
      OBVIOUS
    <3>1. CASE k = n
      <4>1. h[k - 1] = g[k - 1]  BY <3>1
      <4>. QED  BY <3>1, <4>1
    <3>2. CASE k # n
      <4>1. k \in 0 .. n - 1 /\ h[k] = g[k]  BY <3>2
      <4>2. k # 0 => h[k - 1] = g[k - 1]  BY <4>1
      <4>3. g[k] = IF k = 0 THEN Start ELSE Take(g[k - 1], monitor_q[k], R)  BY <2>1, <4>1
      <4>. QED  BY <4>1, <4>2, <4>3
    <3>. QED  BY <3>1, <3>2
  <2>3. Is(h, n)  BY <2>2
  <2>4. n \in Nat  OBVIOUS
  <2>. HIDE DEF Is, h
  <2>. QED  BY <2>3, <2>4
<1>3. N \in Nat  OBVIOUS
<1>4. N \in S
  <2>1. \A k \in 1 .. N : k - 1 \in S => k \in S  BY <1>2
  <2>. HIDE DEF S, N
  <2>2. 0 .. N \subseteq S  BY <1>1, <1>3, <2>1, UpTo
  <2>. QED  BY <1>3, <2>2
<1>5. \E g : Is(g, N)  BY <1>4
<1>6. Walk(R) = CHOOSE g : Is(g, N)
  BY DEF Walk, Start
<1>7. Is(Walk(R), N)  BY <1>5, <1>6
<1>. QED  BY <1>3, <1>7


(* What the walk has done when it is past the k-th entry.                  *)
Walked(R, a, k) ==
    /\ a \in [kept : Seq(Entry), taken : BOOLEAN, prev : BOOLEAN]
    /\ \A i \in 1 .. Len(a.kept) :
          /\ a.kept[i].req \notin R
          /\ \E j \in 1 .. k : /\ monitor_q[j].req = a.kept[i].req
                               /\ monitor_q[j].pid = a.kept[i].pid
    /\ a.taken /\ ~a.prev => a.kept = << >>
    /\ k = 0 => a = Start
    /\ Firm(monitor_q) => Firm(a.kept)

(* What the other client's deletions have kept: all but its own.           *)
Spared(R, a, k) ==
    \A j \in 1 .. k : monitor_q[j].req \notin R =>
       \E i \in 1 .. Len(a.kept) : /\ a.kept[i].req = monitor_q[j].req
                                   /\ a.kept[i].pid = monitor_q[j].pid

(* One entry further.                                                      *)
LEMMA TakeWalked ==
    ASSUME monitor_q \in Seq(Entry), NEW R, NEW k \in 1 .. Len(monitor_q),
           NEW a, Walked(R, a, k - 1)
    PROVE  Walked(R, Take(a, monitor_q[k], R), k)
<1>. DEFINE e == monitor_q[k]
            p == IF a.taken THEN a.prev ELSE e.prev
            f == [e EXCEPT !.prev = p]
            b == Take(a, e, R)
<1>0. /\ e \in Entry /\ a.kept \in Seq(Entry) /\ a.taken \in BOOLEAN /\ a.prev \in BOOLEAN
      /\ Len(a.kept) \in Nat /\ k \in 1 .. k
  BY DEF Walked
<1>1. e.prev \in BOOLEAN /\ p \in BOOLEAN
  <2>1. e.prev \in BOOLEAN  BY <1>0 DEF Entry
  <2>. QED  BY <1>0, <2>1, Zenon
<1>. HIDE DEF p
<1>2. f \in Entry /\ f.req = e.req /\ f.pid = e.pid /\ f.prev = p
  BY <1>0, <1>1 DEF Entry
<1>3. \A i \in 1 .. Len(a.kept) :
          /\ a.kept[i].req \notin R
          /\ \E j \in 1 .. k - 1 : /\ monitor_q[j].req = a.kept[i].req
                                   /\ monitor_q[j].pid = a.kept[i].pid
  BY DEF Walked
<1>4. CASE e.req \in R
  <2>1. b = [kept |-> IF p THEN a.kept ELSE << >>, taken |-> TRUE, prev |-> p]
    BY <1>4 DEF Take, p
  <2>2. b.kept = (IF p THEN a.kept ELSE << >>) /\ b.taken /\ b.prev = p
    BY <2>1
  <2>3. b \in [kept : Seq(Entry), taken : BOOLEAN, prev : BOOLEAN]
    BY <1>0, <1>1, <2>1
  <2>4. Firm(monitor_q) => Firm(b.kept)
    BY <2>2 DEF Walked, Firm
  <2>5. \A i \in 1 .. Len(b.kept) :
          /\ b.kept[i].req \notin R
          /\ \E j \in 1 .. k : /\ monitor_q[j].req = b.kept[i].req
                               /\ monitor_q[j].pid = b.kept[i].pid
    <3>1. CASE p
      <4>1. b.kept = a.kept  BY <2>2, <3>1
      <4>. QED  BY <1>3, <4>1
    <3>2. CASE ~p
      <4>1. b.kept = << >>  BY <2>2, <3>2
      <4>. QED  BY <4>1
    <3>. QED  BY <3>1, <3>2
  <2>. HIDE DEF b, f
  <2>. QED  BY <2>2, <2>3, <2>4, <2>5 DEF Walked, b
<1>5. CASE e.req \notin R
  <2>1. b = [kept |-> Append(a.kept, f), taken |-> FALSE, prev |-> FALSE]
    BY <1>5 DEF Take, p
  <2>2. b.kept = Append(a.kept, f) /\ ~b.taken /\ b.taken \in BOOLEAN /\ b.prev \in BOOLEAN
    BY <2>1
  <2>. HIDE DEF f, b
  <2>3. b.kept \in Seq(Entry) /\ Len(b.kept) = Len(a.kept) + 1
    BY <1>0, <1>2, <2>2
  <2>4. \A i \in 1 .. Len(b.kept) : b.kept[i] = IF i = Len(a.kept) + 1 THEN f ELSE a.kept[i]
    BY <1>0, <1>2, <2>2, <2>3
  <2>5. b \in [kept : Seq(Entry), taken : BOOLEAN, prev : BOOLEAN]
    BY <2>1, <2>2, <2>3
  <2>6. ASSUME NEW i \in 1 .. Len(b.kept)
        PROVE  /\ b.kept[i].req \notin R
               /\ \E j \in 1 .. k : /\ monitor_q[j].req = b.kept[i].req
                                    /\ monitor_q[j].pid = b.kept[i].pid
    <3>1. CASE i = Len(a.kept) + 1
      BY <1>0, <1>2, <1>5, <2>4, <3>1
    <3>2. CASE i # Len(a.kept) + 1
      <4>1. i \in 1 .. Len(a.kept) /\ b.kept[i] = a.kept[i]  BY <1>0, <2>3, <2>4, <3>2
      <4>. QED  BY <1>0, <1>3, <4>1
    <3>. QED  BY <3>1, <3>2
  <2>7. ASSUME Firm(monitor_q) PROVE Firm(b.kept)
    <3>. SUFFICES ASSUME NEW i \in 2 .. Len(b.kept), b.kept[i].req \in OtherReqs
                  PROVE  b.kept[i].prev
      BY DEF Firm
    <3>1. i \in 1 .. Len(b.kept)  BY <2>3
    <3>2. CASE i = Len(a.kept) + 1
      <4>1. b.kept[i] = f /\ a.kept # << >>  BY <1>0, <2>4, <3>1, <3>2
      <4>2. CASE a.taken  BY <1>2, <4>1, <4>2 DEF Walked, p
      <4>3. CASE ~a.taken
        <5>1. k # 1  BY <4>1 DEF Walked, Start
        <5>2. k \in 2 .. Len(monitor_q)  BY <5>1
        <5>3. e.prev  BY <1>2, <2>7, <4>1, <5>2 DEF Firm
        <5>. QED  BY <1>2, <4>1, <4>3, <5>3 DEF p
      <4>. QED  BY <4>2, <4>3
    <3>3. CASE i # Len(a.kept) + 1
      <4>1. i \in 2 .. Len(a.kept) /\ b.kept[i] = a.kept[i]  BY <1>0, <2>3, <2>4, <3>1, <3>3
      <4>. QED  BY <2>7, <4>1 DEF Walked, Firm
    <3>. QED  BY <3>2, <3>3
  <2>. QED
    <3>1. k # 0 /\ ~(b.taken /\ ~b.prev)  BY <2>2, <1>0
    <3>2. Walked(R, b, k)  BY <2>5, <2>6, <2>7, <3>1 DEF Walked
    <3>. QED  BY <3>2 DEF b
<1>. QED  BY <1>4, <1>5

(* A deletion of the other client cuts nothing off.                        *)
LEMMA TakeSpared ==
    ASSUME monitor_q \in Seq(Entry), Firm(monitor_q), NEW R \in SUBSET OtherReqs,
           NEW k \in 1 .. Len(monitor_q), NEW a, Walked(R, a, k - 1), Spared(R, a, k - 1)
    PROVE  Spared(R, Take(a, monitor_q[k], R), k)
<1>. DEFINE e == monitor_q[k]
            p == IF a.taken THEN a.prev ELSE e.prev
            f == [e EXCEPT !.prev = p]
            b == Take(a, e, R)
<1>0. /\ e \in Entry /\ a.kept \in Seq(Entry) /\ a.taken \in BOOLEAN /\ a.prev \in BOOLEAN
      /\ Len(a.kept) \in Nat /\ k \in 1 .. k
  BY DEF Walked
<1>1. e.prev \in BOOLEAN /\ p \in BOOLEAN
  <2>1. e.prev \in BOOLEAN  BY <1>0 DEF Entry
  <2>. QED  BY <1>0, <2>1, Zenon
<1>. HIDE DEF p
<1>2. f \in Entry /\ f.req = e.req /\ f.pid = e.pid
  BY <1>0, <1>1 DEF Entry
<1>3. CASE e.req \in R
  <2>1. ~p => a.kept = << >>
    <3>1. CASE a.taken  BY <3>1 DEF Walked, p
    <3>2. CASE ~a.taken
      <4>1. k = 1 => a.kept = << >>  BY DEF Walked, Start
      <4>2. k # 1 => e.prev  BY <1>3 DEF Firm
      <4>. QED  BY <3>2, <4>1, <4>2 DEF p
    <3>. QED  BY <3>1, <3>2
  <2>2. b.kept = a.kept
    BY <1>3, <2>1 DEF Take, p
  <2>3. \A j \in 1 .. k : monitor_q[j].req \notin R => j \in 1 .. k - 1
    BY <1>3
  <2>. HIDE DEF b
  <2>. QED  BY <2>2, <2>3 DEF Spared, b
<1>4. CASE e.req \notin R
  <2>1. b.kept = Append(a.kept, f)
    BY <1>4 DEF Take, p
  <2>. HIDE DEF f, b
  <2>2. Len(b.kept) = Len(a.kept) + 1 /\ b.kept[Len(a.kept) + 1] = f
    BY <1>0, <1>2, <2>1
  <2>3. \A i \in 1 .. Len(a.kept) : b.kept[i] = a.kept[i]
    BY <1>0, <1>2, <2>1
  <2>. SUFFICES ASSUME NEW j \in 1 .. k, monitor_q[j].req \notin R
                PROVE  \E i \in 1 .. Len(b.kept) : /\ b.kept[i].req = monitor_q[j].req
                                                   /\ b.kept[i].pid = monitor_q[j].pid
    BY DEF Spared, b
  <2>4. CASE j = k
    <3>0. Len(a.kept) \in Nat  BY <1>0
    <3>1. PICK i \in 1 .. Len(b.kept) : i = Len(a.kept) + 1  BY <2>2, <3>0
    <3>2. b.kept[i] = f /\ f.req = monitor_q[j].req /\ f.pid = monitor_q[j].pid
      BY <1>2, <2>2, <2>4, <3>1
    <3>. QED  BY <3>2
  <2>5. CASE j # k
    <3>1. j \in 1 .. k - 1  BY <2>5
    <3>2. PICK i \in 1 .. Len(a.kept) : /\ a.kept[i].req = monitor_q[j].req
                                        /\ a.kept[i].pid = monitor_q[j].pid
      BY <3>1 DEF Spared
    <3>3. i \in 1 .. Len(b.kept)  BY <1>0, <2>2
    <3>. QED  BY <2>3, <3>2, <3>3
  <2>. QED  BY <2>4, <2>5
<1>. QED  BY <1>3, <1>4

(* What delete_mon leaves in the list.                                     *)
LEMMA DeletedFacts ==
    ASSUME monitor_q \in Seq(Entry), NEW R
    PROVE  /\ Deleted(R) \in Seq(Entry)
           /\ \A i \in 1 .. Len(Deleted(R)) :
                 /\ Deleted(R)[i].req \notin R
                 /\ \E j \in 1 .. Len(monitor_q) :
                       /\ monitor_q[j].req = Deleted(R)[i].req
                       /\ monitor_q[j].pid = Deleted(R)[i].pid
           /\ Firm(monitor_q) => Firm(Deleted(R))
<1>. DEFINE N == Len(monitor_q)
            S == {k \in 0 .. N : Walked(R, Walk(R)[k], k)}
<1>1. N \in Nat  OBVIOUS
<1>2. 0 \in S
  <2>1. Start.kept = << >> /\ ~Start.taken  BY DEF Start
  <2>2. Start \in [kept : Seq(Entry), taken : BOOLEAN, prev : BOOLEAN]  BY DEF Start
  <2>3. Walked(R, Start, 0)  BY <2>1, <2>2 DEF Walked, Firm
  <2>. QED  BY <1>1, <2>3, WalkIs
<1>3. \A k \in 1 .. N : k - 1 \in S => k \in S
  <2>. SUFFICES ASSUME NEW k \in 1 .. N, k - 1 \in S PROVE k \in S
    OBVIOUS
  <2>1. Walked(R, Take(Walk(R)[k - 1], monitor_q[k], R), k)  BY TakeWalked
  <2>. QED  BY <2>1, WalkIs
<1>4. 0 .. N \subseteq S
  <2>. HIDE DEF N, S
  <2>. QED  BY <1>1, <1>2, <1>3, UpTo
<1>5. Walked(R, Walk(R)[N], N)  BY <1>1, <1>4
<1>. QED  BY <1>5 DEF Walked, Deleted

(* What the other client's deletions leave in it.                          *)
LEMMA DeletedSpares ==
    ASSUME monitor_q \in Seq(Entry), Firm(monitor_q), NEW R \in SUBSET OtherReqs
    PROVE  \A j \in 1 .. Len(monitor_q) : monitor_q[j].req \notin R =>
              \E i \in 1 .. Len(Deleted(R)) : /\ Deleted(R)[i].req = monitor_q[j].req
                                              /\ Deleted(R)[i].pid = monitor_q[j].pid
<1>. DEFINE N == Len(monitor_q)
            S == {k \in 0 .. N : Walked(R, Walk(R)[k], k) /\ Spared(R, Walk(R)[k], k)}
<1>1. N \in Nat  OBVIOUS
<1>2. 0 \in S
  <2>1. Start.kept = << >> /\ ~Start.taken  BY DEF Start
  <2>2. Start \in [kept : Seq(Entry), taken : BOOLEAN, prev : BOOLEAN]  BY DEF Start
  <2>3. Walked(R, Start, 0) /\ Spared(R, Start, 0)  BY <2>1, <2>2 DEF Walked, Firm, Spared
  <2>. QED  BY <1>1, <2>3, WalkIs
<1>3. \A k \in 1 .. N : k - 1 \in S => k \in S
  <2>. SUFFICES ASSUME NEW k \in 1 .. N, k - 1 \in S PROVE k \in S
    OBVIOUS
  <2>1. Walked(R, Take(Walk(R)[k - 1], monitor_q[k], R), k)  BY TakeWalked
  <2>2. Spared(R, Take(Walk(R)[k - 1], monitor_q[k], R), k)  BY TakeSpared
  <2>. QED  BY <2>1, <2>2, WalkIs
<1>4. 0 .. N \subseteq S
  <2>. HIDE DEF N, S
  <2>. QED  BY <1>1, <1>2, <1>3, UpTo
<1>5. Spared(R, Walk(R)[N], N)  BY <1>1, <1>4
<1>. QED  BY <1>5 DEF Spared, Deleted

(* The list with a new entry behind the m-th.                              *)
PlacedAt(t, m, e) ==
    /\ t \in Seq(Entry) /\ Len(t) = Len(monitor_q) + 1
    /\ \A i \in 1 .. m : t[i] = monitor_q[i]
    /\ t[m + 1] = e
    /\ \A i \in m + 2 .. Len(monitor_q) + 1 :
          /\ t[i].req = monitor_q[i - 1].req /\ t[i].pid = monitor_q[i - 1].pid
          /\ i = m + 2 \/ monitor_q[i - 1].prev => t[i].prev

LEMMA Placed ==
    ASSUME monitor_q \in Seq(Entry), NEW m \in 0 .. Len(monitor_q), NEW e \in Entry,
           NEW t, t = SubSeq(monitor_q, 1, m) \o <<e>>
                      \o HasPrev(SubSeq(monitor_q, m + 1, Len(monitor_q)))
    PROVE  PlacedAt(t, m, e)
<1>. DEFINE N == Len(monitor_q)
            A == SubSeq(monitor_q, 1, m)
            B == SubSeq(monitor_q, m + 1, N)
            C == HasPrev(B)
<1>1. N \in Nat /\ A \in Seq(Entry) /\ Len(A) = m /\ B \in Seq(Entry) /\ Len(B) = N - m
  OBVIOUS
<1>2. /\ \A i \in 1 .. m : A[i] = monitor_q[i]
      /\ \A i \in 1 .. N - m : B[i] = monitor_q[m + i]
  OBVIOUS
<1>. HIDE DEF A, B
<1>3. /\ C \in Seq(Entry) /\ Len(C) = N - m
      /\ \A i \in 1 .. N - m : /\ C[i].req = B[i].req /\ C[i].pid = B[i].pid
                               /\ i = 1 \/ B[i].prev => C[i].prev
  <2>1. CASE B = << >>  BY <1>1, <2>1 DEF HasPrev
  <2>2. CASE B # << >>
    <3>1. 1 \in 1 .. Len(B) /\ B[1] \in Entry  BY <1>1, <2>2
    <3>2. [B[1] EXCEPT !.prev = TRUE] \in Entry  BY <3>1 DEF Entry
    <3>3. PICK x \in Entry : x = [B[1] EXCEPT !.prev = TRUE]  BY <3>2
    <3>6. x.req = B[1].req /\ x.pid = B[1].pid /\ x.prev  BY <3>1, <3>3 DEF Entry
    <3>4. C = [B EXCEPT ![1] = x]  BY <2>2, <3>3 DEF HasPrev
    <3>5. C \in Seq(Entry) /\ Len(C) = N - m /\ \A i \in 1 .. N - m : C[i] = IF i = 1 THEN x ELSE B[i]
      BY <1>1, <3>1, <3>4
    <3>. QED  BY <3>5, <3>6
  <2>. QED  BY <2>1, <2>2
<1>3a. C \in Seq(Entry) /\ Len(C) = N - m  BY <1>3, Zenon
<1>. HIDE DEF C
<1>4. t = (A \o <<e>>) \o C  BY DEF A, B, C
<1>5. PICK D, E \in Seq(Entry) : E = <<e>> /\ D = A \o E
  <2>1. <<e>> \in Seq(Entry)  OBVIOUS
  <2>. QED  BY <1>1, <2>1, ConcatProperties
<1>6. /\ Len(D) = m + 1 /\ D[m + 1] = e
      /\ \A i \in 1 .. m : D[i] = A[i]
  <2>1. Len(E) = 1 /\ E[1] = e  BY <1>5
  <2>2. /\ Len(D) = Len(A) + Len(E)
        /\ \A i \in 1 .. Len(A) + Len(E) : D[i] = IF i <= Len(A) THEN A[i] ELSE E[i - Len(A)]
    BY <1>1, <1>5, ConcatProperties
  <2>. QED  BY <1>1, <2>1, <2>2
<1>7. t = D \o C  BY <1>4, <1>5
<1>8. /\ t \in Seq(Entry) /\ Len(t) = N + 1
      /\ \A i \in 1 .. m + 1 : t[i] = D[i]
      /\ \A i \in m + 2 .. N + 1 : t[i] = C[i - (m + 1)]
  <2>1. /\ t \in Seq(Entry) /\ Len(t) = Len(D) + Len(C)
        /\ \A i \in 1 .. Len(D) + Len(C) : t[i] = IF i <= Len(D) THEN D[i] ELSE C[i - Len(D)]
    <3>1. D \in Seq(Entry)  BY <1>5
    <3>2. PICK c : c = C  OBVIOUS
    <3>3. c \in Seq(Entry)  BY <1>3a, <3>2
    <3>4. /\ D \o c \in Seq(Entry) /\ Len(D \o c) = Len(D) + Len(c)
          /\ \A i \in 1 .. Len(D) + Len(c) : (D \o c)[i] = IF i <= Len(D) THEN D[i] ELSE c[i - Len(D)]
      BY <3>1, <3>3, ConcatProperties
    <3>. QED  BY <1>7, <3>2, <3>4, Zenon
  <2>2. Len(D) + Len(C) = N + 1 /\ m \in Nat /\ m <= N  BY <1>1, <1>6, <1>3a
  <2>3. \A i \in 1 .. N + 1 : t[i] = IF i <= m + 1 THEN D[i] ELSE C[i - (m + 1)]
    BY <1>6, <2>1, <2>2
  <2>. QED  BY <1>1, <2>1, <2>2, <2>3
<1>9. ASSUME NEW i \in m + 2 .. N + 1
      PROVE  /\ t[i].req = monitor_q[i - 1].req /\ t[i].pid = monitor_q[i - 1].pid
             /\ i = m + 2 \/ monitor_q[i - 1].prev => t[i].prev
  <2>1. i - (m + 1) \in 1 .. N - m /\ m + (i - (m + 1)) = i - 1 /\ (i = m + 2 => i - (m + 1) = 1)
    BY <1>1
  <2>2. B[i - (m + 1)] = monitor_q[i - 1]  BY <1>2, <2>1
  <2>3. t[i] = C[i - (m + 1)]  BY <1>8
  <2>4. PICK j \in 1 .. N - m : j = i - (m + 1)  BY <2>1
  <2>5. /\ C[j].req = B[j].req /\ C[j].pid = B[j].pid /\ (j = 1 \/ B[j].prev => C[j].prev)
    BY <1>3, <2>4
  <2>. QED  BY <2>1, <2>2, <2>3, <2>4, <2>5, Zenon
<1>10. \A i \in 1 .. m : t[i] = monitor_q[i]
  BY <1>1, <1>2, <1>6, <1>8
<1>11. t[m + 1] = e  BY <1>1, <1>6, <1>8
<1>. QED  BY <1>8, <1>9, <1>10, <1>11 DEF PlacedAt

(* What insert_mon does to the list: nothing goes, r is in it, and only r  *)
(* is new.                                                                 *)
InsertedAs(t, r, n) ==
    /\ t \in Seq(Entry)
    /\ \A k \in 1 .. Len(monitor_q) : \E i \in 1 .. Len(t) :
          t[i].req = monitor_q[k].req /\ t[i].pid = monitor_q[k].pid
    /\ \A i \in 1 .. Len(t) :
          \/ t[i].req = r /\ t[i].pid = n
          \/ \E k \in 1 .. Len(monitor_q) :
                t[i].req = monitor_q[k].req /\ t[i].pid = monitor_q[k].pid
    /\ \E i \in 1 .. Len(t) : t[i].req = r
    /\ ClientsApart /\ Firm(monitor_q) => Firm(t)

LEMMA PlacedAs ==
    ASSUME monitor_q \in Seq(Entry), NEW r \in Reqs, NEW n \in Nat,
           NEW m \in 0 .. Len(monitor_q), NEW e \in Entry,
           e = [req |-> r, pid |-> n, prev |-> FALSE],
           m > 0 /\ ClientsApart => r \notin OtherReqs,
           NEW t, PlacedAt(t, m, e)
    PROVE  InsertedAs(t, r, n)
<1>. USE DEF PlacedAt
<1>. DEFINE N == Len(monitor_q)
<1>1. N \in Nat /\ m \in Nat /\ m <= N /\ \A k \in 1 .. N : monitor_q[k] \in Entry
  OBVIOUS
<1>2. \A i \in m + 2 .. N + 1 : i - 1 \in 1 .. N  BY <1>1
<1>3. e.req = r /\ e.pid = n  OBVIOUS
<1>4. ASSUME NEW k \in 1 .. N
      PROVE  \E i \in 1 .. Len(t) : t[i].req = monitor_q[k].req /\ t[i].pid = monitor_q[k].pid
  <2>1. CASE k <= m
    <3>1. k \in 1 .. Len(t) /\ t[k] = monitor_q[k]  BY <1>1, <2>1
    <3>. QED  BY <3>1
  <2>2. CASE k > m
    <3>1. k + 1 \in m + 2 .. N + 1 /\ k + 1 \in 1 .. Len(t) /\ (k + 1) - 1 = k  BY <1>1, <2>2
    <3>2. t[k + 1].req = monitor_q[k].req /\ t[k + 1].pid = monitor_q[k].pid  BY <1>2, <3>1
    <3>. QED  BY <3>1, <3>2
  <2>. QED  BY <1>1, <2>1, <2>2
<1>5. ASSUME NEW i \in 1 .. Len(t)
      PROVE  \/ t[i].req = r /\ t[i].pid = n
             \/ \E k \in 1 .. N : t[i].req = monitor_q[k].req /\ t[i].pid = monitor_q[k].pid
  <2>1. CASE i <= m  BY <1>1, <2>1
  <2>2. CASE i = m + 1  BY <1>3, <2>2
  <2>3. CASE i > m + 1
    <3>1. i \in m + 2 .. N + 1  BY <1>1, <2>3
    <3>. QED  BY <1>2, <3>1
  <2>. QED  BY <1>1, <2>1, <2>2, <2>3
<1>6. \E i \in 1 .. Len(t) : t[i].req = r
  <2>1. m + 1 \in 1 .. Len(t)  BY <1>1
  <2>. QED  BY <1>3, <2>1
<1>7. ASSUME ClientsApart, Firm(monitor_q) PROVE Firm(t)
  <2>. SUFFICES ASSUME NEW i \in 2 .. Len(t), t[i].req \in OtherReqs PROVE t[i].prev
    BY DEF Firm
  <2>1. CASE i <= m
    <3>1. i \in 2 .. N /\ t[i] = monitor_q[i]  BY <1>1, <2>1
    <3>. QED  BY <1>7, <3>1 DEF Firm
  <2>2. CASE i = m + 1  BY <1>1, <1>3, <1>7, <2>2
  <2>3. CASE i > m + 1
    <3>1. i \in m + 2 .. N + 1  BY <1>1, <2>3
    <3>2. CASE i - 1 \in 2 .. N  BY <1>2, <1>7, <3>1, <3>2 DEF Firm
    <3>3. CASE i - 1 = 1
      <4>1. i = m + 2  BY <1>1, <2>3, <3>3
      <4>. QED  BY <3>1, <4>1
    <3>. QED  BY <1>1, <3>1, <3>2, <3>3
  <2>. QED  BY <1>1, <2>1, <2>2, <2>3
<1>. QED  BY <1>4, <1>5, <1>6, <1>7 DEF InsertedAs

LEMMA InsertedFacts ==
    ASSUME monitor_q \in Seq(Entry), NEW r \in Reqs, NEW n \in Nat
    PROVE  InsertedAs(Inserted(r, n), r, n)
<1>. DEFINE e == [req |-> r, pid |-> n, prev |-> FALSE]
            F == Min(Same(r[1]))
            N == Len(monitor_q)
<1>1. e \in Entry /\ N \in Nat /\ \A k \in 1 .. N : monitor_q[k] \in Entry
  <2>1. e \in Entry  BY DEF Entry
  <2>2. N \in Nat /\ \A k \in 1 .. N : monitor_q[k] \in Entry  OBVIOUS
  <2>. QED  BY <2>1, <2>2
<1>. HIDE DEF e
<1>2. CASE Same(r[1]) = {}
  <2>1. Inserted(r, n) = <<e>> \o HasPrev(monitor_q)  BY <1>2 DEF Inserted, e
  <2>2. SubSeq(monitor_q, 1, 0) = << >> /\ SubSeq(monitor_q, 0 + 1, N) = monitor_q
    BY SubSeqEmpty, SubSeqFull
  <2>3. << >> \o <<e>> = <<e>>  OBVIOUS
  <2>4. Inserted(r, n) = SubSeq(monitor_q, 1, 0) \o <<e>> \o HasPrev(SubSeq(monitor_q, 0 + 1, N))
    BY <2>1, <2>2, <2>3
  <2>5. PICK m \in 0 .. N : m = 0  BY <1>1
  <2>6. PICK t : t = Inserted(r, n)  OBVIOUS
  <2>7. PlacedAt(t, m, e)
    <3>1. t = SubSeq(monitor_q, 1, m) \o <<e>> \o HasPrev(SubSeq(monitor_q, m + 1, Len(monitor_q)))
      BY <2>4, <2>5, <2>6
    <3>. QED  BY <1>1, <2>5, <3>1, Placed, Zenon
  <2>8. InsertedAs(t, r, n)
    BY <1>1, <2>5, <2>7, PlacedAs DEF e
  <2>. QED  BY <2>6, <2>8
<1>3. CASE Same(r[1]) # {}
  <2>1. F \in 1 .. N /\ monitor_q[F].req[1] = r[1]
    <3>1. Same(r[1]) \in SUBSET Nat  BY DEF Same
    <3>2. \E x \in Same(r[1]) : \A y \in Same(r[1]) : x <= y  BY <1>3, <3>1, LeastNumber
    <3>3. F \in Same(r[1])  BY <3>2 DEF Min
    <3>. QED  BY <3>3 DEF Same
  <2>. HIDE DEF F
  <2>2. CASE monitor_q[F].req = r
    <3>1. Inserted(r, n) = monitor_q  BY <1>3, <2>2 DEF Inserted, F
    <3>. QED  BY <1>1, <2>1, <2>2, <3>1 DEF InsertedAs
  <2>3. CASE monitor_q[F].req # r
    <3>1. Inserted(r, n) = SubSeq(monitor_q, 1, F) \o <<e>> \o HasPrev(SubSeq(monitor_q, F + 1, N))
      BY <1>3, <2>3 DEF Inserted, e, F
    <3>2. ClientsApart => r \notin OtherReqs
      <4>. SUFFICES ASSUME ClientsApart, r \in OtherReqs PROVE FALSE
        OBVIOUS
      <4>1. PICK q \in Reqs : q = monitor_q[F].req  BY <1>1, <2>1 DEF Entry
      <4>2. q[1] = r[1]  BY <2>1, <4>1
      <4>3. q \in OtherReqs  BY <4>2 DEF Reqs, ClientsApart
      <4>4. q = <<q[1], "OTHER">> /\ r = <<r[1], "OTHER">>  BY <4>3, MonitorConstants
      <4>. QED  BY <2>3, <4>1, <4>2, <4>4
    <3>3. PICK m \in 0 .. N : m = F  BY <2>1
    <3>4. PICK t : t = Inserted(r, n)  OBVIOUS
    <3>5. PlacedAt(t, m, e)
      <4>1. t = SubSeq(monitor_q, 1, m) \o <<e>> \o HasPrev(SubSeq(monitor_q, m + 1, Len(monitor_q)))
        BY <3>1, <3>3, <3>4
      <4>. QED  BY <1>1, <3>3, <4>1, Placed, Zenon
    <3>6. InsertedAs(t, r, n)
      BY <1>1, <3>2, <3>3, <3>5, PlacedAs DEF e
    <3>. QED  BY <3>4, <3>6
  <2>. QED  BY <2>2, <2>3
<1>. QED  BY <1>2, <1>3

-----------------------------------------------------------------------------
(* Types                                                                   *)

LEMMA EmptyType == Empty \in [Host -> Nat]
BY DEF Empty

(* What a step of statd_init leaves of the types.                          *)
LEMMA ReadDirType ==
    ASSUME NEW d \in SUBSET Host, ReadDir(d)
    PROVE  dir' \subseteq Host
BY DEF ReadDir

LEMMA StartInitTypes ==
    ASSUME TypeOK, StartInit
    PROVE  /\ LOCAL_STATE' \in Nat /\ state' \in Nat /\ dir' \subseteq Host
           /\ statd' \in Phase
BY ReadDirType, NextStateOdd DEF TypeOK, StartInit, Phase

LEMMA NotifiedTypes ==
    ASSUME TypeOK, NEW S, Notified(S)
    PROVE  owed' \subseteq Host /\ sent' \in Nat /\ past' \in Nat /\ alone' \in BOOLEAN
<1>1. sent' \in Nat
  BY MaxOfTwo DEF TypeOK, Notified
<1>. QED  BY <1>1 DEF TypeOK, Notified

LEMMA RecordTypes ==
    ASSUME TypeOK, NEW h \in Host, Record(h) \/ Unrecord(h)
    PROVE  record_q' \in [Host -> Nat] /\ current' \subseteq Host
BY DEF TypeOK, Record, Unrecord

(* The lists that insert_mon and delete_mon leave.                         *)
LEMMA ListTypes ==
    ASSUME TypeOK
    PROVE  /\ monitor_q \in Seq(Entry)
           /\ \A r \in Reqs, n \in Nat : Inserted(r, n) \in Seq(Entry)
           /\ \A R : Deleted(R) \in Seq(Entry)
<1>1. monitor_q \in Seq(Entry)  BY DEF TypeOK, Entry
<1>. QED  BY <1>1, InsertedFacts, DeletedFacts DEF InsertedAs

LEMMA InitStepTypes ==
    ASSUME TypeOK, InitStep
    PROVE  TypeOK'
<1>. USE DEF files, queues, lockdvars, history
<1>1. CASE Boot
  BY <1>1, StartInitTypes DEF Boot, TypeOK
<1>2. CASE ReadBackup
  BY <1>2, ReadDirType DEF ReadBackup, TypeOK, Phase
<1>3. CASE Unlink
  BY <1>3 DEF Unlink, TypeOK
<1>4. CASE InitDone
  BY <1>4 DEF InitDone, TypeOK, Phase
<1>5. ASSUME NEW h \in Host, Rename(h) PROVE TypeOK'
  BY <1>5 DEF Rename, TypeOK
<1>6. ASSUME NEW h \in Host, CallOK(h) PROVE TypeOK'
  BY <1>6, NotifiedTypes DEF CallOK, TypeOK
<1>7. ASSUME NEW h \in Host, CallFails(h) PROVE TypeOK'
  BY <1>7, NotifiedTypes DEF CallFails, TypeOK
<1>. QED  BY <1>1, <1>2, <1>3, <1>4, <1>5, <1>6, <1>7 DEF InitStep

LEMMA insert_monTypes ==
    ASSUME TypeOK, NEW r \in Reqs, NEW n \in Nat, insert_mon(r, n),
           lockd' = lockd, pid' = pid, me' \subseteq LockdReqs,
           asking' \in LockdReqs \cup {NoReq}
    PROVE  TypeOK'
<1>1. r[1] \in Host  BY ReqHost
<1>2. record_q' \in [Host -> Nat] /\ current' \subseteq Host
  BY <1>1, RecordTypes DEF insert_mon
<1>3. monitor_q' \in Seq(Entry)
  BY ListTypes DEF insert_mon
<1>. QED  BY <1>2, <1>3 DEF insert_mon, TypeOK, Entry, history

LEMMA LockdStepTypes ==
    ASSUME TypeOK, LockdStep
    PROVE  TypeOK'
<1>. USE DEF files, queues, history
<1>1. CASE LockdStarts
  BY <1>1 DEF LockdStarts, TypeOK
<1>2. CASE CancelCrash \/ CancelRecovery
  <2>1. monitor_q' \in Seq(Entry)
    BY <1>2, ListTypes DEF CancelCrash, CancelRecovery, sm_unmon_all
  <2>. QED  BY <1>2, <2>1 DEF CancelCrash, CancelRecovery, sm_unmon_all, TypeOK, Entry
<1>3. CASE SimuCrash
  <2>1. CASE record_q = Empty
    BY <1>3, <2>1 DEF SimuCrash, sm_crash, TypeOK
  <2>2. CASE record_q # Empty
    <3>1. StartInit  BY <1>3, <2>2 DEF SimuCrash, sm_crash
    <3>. QED  BY <1>3, <2>2, <3>1, StartInitTypes, EmptyType DEF SimuCrash, sm_crash, TypeOK
  <2>. QED  BY <2>1, <2>2
<1>4. CASE CancelFails
  BY <1>4 DEF CancelFails, TypeOK
<1>5. ASSUME NEW r \in LockdReqs, Ask(r) PROVE TypeOK'
  BY <1>5 DEF Ask, TypeOK
<1>6. CASE Asked
  <2>1. asking \in Reqs /\ asking \in LockdReqs /\ pid \in Nat  BY <1>6 DEF Asked, TypeOK, Reqs
  <2>2. me' \subseteq LockdReqs /\ asking' \in LockdReqs \cup {NoReq}
    BY <1>6, <2>1 DEF Asked, TypeOK
  <2>. QED  BY <1>6, <2>1, <2>2, insert_monTypes DEF Asked
<1>7. CASE AskFails
  BY <1>7 DEF AskFails, TypeOK
<1>. QED  BY <1>1, <1>2, <1>3, <1>4, <1>5, <1>6, <1>7 DEF LockdStep

LEMMA TypeStep ==
    ASSUME TypeOK, [Next]_vars
    PROVE  TypeOK'
<1>. USE DEF files, queues, lockdvars, history
<1>1. CASE InitStep
  BY <1>1, InitStepTypes
<1>2. ASSUME NEW S \in SUBSET Host, sm_try(S) PROVE TypeOK'
  BY <1>2, NotifiedTypes DEF sm_try, TypeOK
<1>3. CASE LockdStep
  BY <1>3, LockdStepTypes
<1>4. ASSUME NEW r \in OtherReqs, OtherMons(r) PROVE TypeOK'
  <2>1. r \in Reqs /\ 0 \in Nat  BY DEF Reqs
  <2>2. /\ lockd' = lockd /\ pid' = pid /\ me' \subseteq LockdReqs
        /\ asking' \in LockdReqs \cup {NoReq}
    BY <1>4 DEF OtherMons, TypeOK
  <2>. QED  BY <1>4, <2>1, <2>2, insert_monTypes DEF OtherMons
<1>5. ASSUME NEW r \in OtherReqs, OtherUnmons(r) PROVE TypeOK'
  <2>1. r[1] \in Host  BY ReqHost DEF Reqs
  <2>2. record_q' \in [Host -> Nat] /\ current' \subseteq Host
    BY <1>5, <2>1, RecordTypes DEF OtherUnmons, sm_unmon
  <2>3. monitor_q' \in Seq(Entry)
    BY <1>5, ListTypes DEF OtherUnmons, sm_unmon
  <2>. QED  BY <1>5, <2>2, <2>3 DEF OtherUnmons, sm_unmon, TypeOK, Entry
<1>6. CASE MachineCrash \/ StatdCrash
  <2>1. StatdLost /\ alone' \in BOOLEAN /\ lockd' \in {lockd, "down"} /\ pid' = pid
        /\ me' \in {me, {}} /\ asking' \in {asking, NoReq}
    BY <1>6 DEF MachineCrash, StatdCrash, LockdLost
  <2>2. << >> \in Seq(Entry)  OBVIOUS
  <2>3. monitor_q' \in Seq(Entry) /\ record_q' \in [Host -> Nat]
    BY <2>1, <2>2, EmptyType DEF StatdLost
  <2>4. current' \subseteq Host /\ backup' \subseteq Host /\ owed' \subseteq Host
    BY <2>1 DEF StatdLost, TypeOK
  <2>. QED  BY <2>1, <2>3, <2>4 DEF StatdLost, TypeOK, Phase, Entry
<1>7. CASE LockdCrash
  BY <1>7 DEF LockdCrash, LockdLost, TypeOK
<1>8. CASE UNCHANGED vars
  BY <1>8 DEF vars, TypeOK
<1>. QED  BY <1>1, <1>2, <1>3, <1>4, <1>5, <1>6, <1>7, <1>8 DEF Next

LEMMA TypeInit == Init => TypeOK
<1>. SUFFICES ASSUME Init PROVE TypeOK
  OBVIOUS
<1>1. << >> \in Seq(Entry)  OBVIOUS
<1>2. monitor_q \in Seq(Entry) /\ record_q \in [Host -> Nat]
  BY <1>1, EmptyType DEF Init
<1>3. /\ statd \in Phase /\ alarm \in BOOLEAN /\ alone \in BOOLEAN
      /\ lockd \in {"down", "cancelC", "cancelR", "simu", "run"}
  BY DEF Init, Phase
<1>4. /\ current \subseteq Host /\ backup \subseteq Host /\ dir \subseteq Host
      /\ recovery_q \subseteq Host /\ owed \subseteq Host /\ me \subseteq LockdReqs
      /\ told \in Host \cup {NoHost} /\ asking \in LockdReqs \cup {NoReq}
  BY DEF Init
<1>5. state \in Nat /\ LOCAL_STATE \in Nat /\ pid \in Nat /\ sent \in Nat /\ past \in Nat
  BY DEF Init
<1>. QED  BY <1>2, <1>3, <1>4, <1>5 DEF TypeOK, Entry

(* Every variable keeps its type; that delete_mon, with its prev pointers  *)
(* that are not set, leaves a list of requests is what takes an induction. *)
THEOREM TypesKept == Spec => []TypeOK
BY TypeInit, TypeStep, PTL DEF Spec

-----------------------------------------------------------------------------
(* What is recorded, and what lockd relies on                              *)

LEMMA RecordUnchanged ==
    ASSUME RecordInv, UNCHANGED <<record_q, current>>, statd = "serve" => statd' = "serve"
    PROVE  RecordInv'
BY DEF RecordInv

LEMMA RecordEmpty ==
    ASSUME record_q' = Empty
    PROVE  RecordInv'
BY DEF RecordInv, Empty

LEMMA RecordChanges ==
    ASSUME TypeOK, RecordInv, statd' = "serve", NEW h \in Host, Record(h) \/ Unrecord(h)
    PROVE  RecordInv'
<1>. SUFFICES ASSUME NEW g \in Host, record_q'[g] > 0 PROVE g \in current'
  BY DEF RecordInv
<1>1. record_q \in [Host -> Nat]  BY DEF TypeOK
<1>2. CASE Record(h)
  BY <1>1, <1>2 DEF Record, RecordInv
<1>3. CASE Unrecord(h)
  <2>1. record_q' = [record_q EXCEPT ![h] = IF @ = 0 THEN 0 ELSE @ - 1]
    BY <1>3 DEF Unrecord
  <2>2. record_q[g] > 0 /\ (g = h => record_q[g] # 1)
    BY <1>1, <2>1
  <2>. QED  BY <1>3, <2>2 DEF Unrecord, RecordInv
<1>. QED  BY <1>2, <1>3

(* Before statd serves nothing is recorded.                                *)
LEMMA NothingRecorded ==
    ASSUME TypeOK, RecordInv, statd # "serve", record_q' = record_q
    PROVE  RecordInv'
BY DEF TypeOK, RecordInv

LEMMA RecordStep ==
    ASSUME TypeOK, RecordInv, [Next]_vars
    PROVE  RecordInv'
<1>. USE DEF files, queues, lockdvars, history
<1>1. CASE InitStep
  <2>1. record_q' = record_q /\ statd # "serve"
    BY <1>1 DEF InitStep, Boot, ReadBackup, Unlink, InitDone, Rename, CallOK, CallFails
  <2>. QED  BY <2>1, NothingRecorded
<1>2. ASSUME NEW S \in SUBSET Host, sm_try(S) PROVE RecordInv'
  BY <1>2, RecordUnchanged DEF sm_try
<1>3. CASE LockdStep
  <2>1. CASE SimuCrash
    <3>1. CASE record_q = Empty
      BY <2>1, <3>1, RecordUnchanged DEF SimuCrash, sm_crash
    <3>2. CASE record_q # Empty
      BY <2>1, <3>2, RecordEmpty DEF SimuCrash, sm_crash
    <3>. QED  BY <3>1, <3>2
  <2>2. CASE LockdStarts \/ CancelCrash \/ CancelRecovery \/ CancelFails \/ AskFails
    BY <2>2, RecordUnchanged
       DEF LockdStarts, CancelCrash, CancelRecovery, CancelFails, AskFails, sm_unmon_all
  <2>3. ASSUME NEW r \in LockdReqs, Ask(r) PROVE RecordInv'
    BY <2>3, RecordUnchanged DEF Ask
  <2>4. CASE Asked
    <3>1. asking[1] \in Host  BY <2>4, ReqHost DEF Asked, TypeOK, Reqs
    <3>. QED  BY <2>4, <3>1, RecordChanges DEF Asked, insert_mon
  <2>. QED  BY <1>3, <2>1, <2>2, <2>3, <2>4 DEF LockdStep
<1>4. ASSUME NEW r \in OtherReqs, OtherMons(r) \/ OtherUnmons(r) PROVE RecordInv'
  <2>1. r[1] \in Host  BY ReqHost DEF Reqs
  <2>. QED  BY <1>4, <2>1, RecordChanges DEF OtherMons, OtherUnmons, insert_mon, sm_unmon
<1>5. CASE MachineCrash \/ StatdCrash
  BY <1>5, RecordEmpty DEF MachineCrash, StatdCrash, StatdLost
<1>6. CASE LockdCrash
  BY <1>6, RecordUnchanged DEF LockdCrash
<1>7. CASE UNCHANGED vars
  BY <1>7, RecordUnchanged DEF vars
<1>. QED  BY <1>1, <1>2, <1>3, <1>4, <1>5, <1>6, <1>7 DEF Next

LEMMA LockdUnchanged ==
    ASSUME LockdInv, UNCHANGED <<monitor_q, record_q, lockd, pid, me, asking, alone>>,
           statd' = "down" => statd = "down"
    PROVE  LockdInv'
BY DEF LockdInv, Firm

(* lockd does not run: what it relies on is only what cancel_mon removed.  *)
LEMMA LockdCancels ==
    ASSUME LockdInv, lockd # "run", lockd' # "run", UNCHANGED <<me, asking>>,
           statd' = "down" => monitor_q' = << >>,
           Firm(monitor_q)',
           lockd' = "cancelR" => \A k \in 1 .. Len(monitor_q') : monitor_q'[k].req[2] # "PRIV_CRASH",
           lockd' = "simu" => \A k \in 1 .. Len(monitor_q') : monitor_q'[k].req \notin LockdReqs
    PROVE  LockdInv'
BY DEF LockdInv

(* lockd starts to run: nothing of it is in the list.                      *)
LEMMA LockdRuns ==
    ASSUME LockdInv, lockd # "run", lockd' = "run", UNCHANGED <<me, asking, monitor_q>>,
           statd' = "down" => monitor_q = << >>,
           \A k \in 1 .. Len(monitor_q) : monitor_q[k].req \notin LockdReqs
    PROVE  LockdInv'
BY DEF LockdInv, Firm

LEMMA ReqKinds ==
    /\ \A r \in LockdReqs : r[2] \in {"PRIV_CRASH", "PRIV_RECOVERY"} /\ r \in Reqs
    /\ \A r \in OtherReqs : r[2] = "OTHER" /\ r \in Reqs /\ r \notin LockdReqs
BY MonitorConstants DEF Reqs

LEMMA CancelLockd ==
    ASSUME TypeOK, LockdInv, CancelCrash \/ CancelRecovery
    PROVE  LockdInv'
<1>1. monitor_q \in Seq(Entry)  BY ListTypes
<1>2. PICK c \in {"PRIV_CRASH", "PRIV_RECOVERY"} :
         /\ monitor_q' = Deleted({q \in Reqs : q[2] = c})
         /\ \/ c = "PRIV_CRASH" /\ lockd = "cancelC" /\ lockd' \in {"cancelC", "cancelR"}
            \/ c = "PRIV_RECOVERY" /\ lockd = "cancelR" /\ lockd' \in {"cancelR", "simu"}
  BY DEF CancelCrash, CancelRecovery, sm_unmon_all
<1>3. /\ monitor_q' \in Seq(Entry)
      /\ Firm(monitor_q)'
      /\ \A i \in 1 .. Len(monitor_q') :
            /\ monitor_q'[i].req \notin {q \in Reqs : q[2] = c}
            /\ \E j \in 1 .. Len(monitor_q) : monitor_q[j].req = monitor_q'[i].req
  <2>1. PICK R : R = {q \in Reqs : q[2] = c}  OBVIOUS
  <2>2. PICK t : t = Deleted(R)  OBVIOUS
  <2>3. /\ t \in Seq(Entry)
        /\ Firm(monitor_q) => Firm(t)
        /\ \A i \in 1 .. Len(t) :
              /\ t[i].req \notin R
              /\ \E j \in 1 .. Len(monitor_q) : monitor_q[j].req = t[i].req
    BY <1>1, <2>2, DeletedFacts
  <2>4. Firm(t)  BY <2>3 DEF LockdInv
  <2>5. monitor_q' = t  BY <1>2, <2>1, <2>2
  <2>6. Firm(monitor_q)'  BY <2>4, <2>5 DEF Firm
  <2>. QED  BY <2>1, <2>3, <2>5, <2>6
<1>4. \A i \in 1 .. Len(monitor_q') : monitor_q'[i].req \in Reqs /\ monitor_q'[i].req[2] # c
  <2>1. \A i \in 1 .. Len(monitor_q') : monitor_q'[i] \in Entry  BY <1>3
  <2>2. \A i \in 1 .. Len(monitor_q') : monitor_q'[i].req \in Reqs  BY <2>1 DEF Entry
  <2>. QED  BY <1>3, <2>2
<1>5. statd' # "down" /\ UNCHANGED <<me, asking>>
  BY DEF CancelCrash, CancelRecovery, sm_unmon_all
<1>6. CASE c = "PRIV_CRASH"
  BY <1>2, <1>3, <1>4, <1>5, <1>6, LockdCancels
<1>7. CASE c = "PRIV_RECOVERY"
  <2>1. \A k \in 1 .. Len(monitor_q') : monitor_q'[k].req[2] # "PRIV_CRASH"
    BY <1>2, <1>3, <1>7 DEF LockdInv
  <2>2. \A k \in 1 .. Len(monitor_q') : monitor_q'[k].req \notin LockdReqs
    BY <1>4, <1>7, <2>1, ReqKinds
  <2>. QED  BY <1>2, <1>3, <1>5, <1>7, <2>1, <2>2, LockdCancels
<1>. QED  BY <1>2, <1>6, <1>7

(* A host is recorded once more.                                           *)
LEMMA RecordedMore ==
    ASSUME TypeOK, NEW r \in Reqs, Record(r[1])
    PROVE  /\ record_q'[r[1]] > 0
           /\ \A h \in Host : record_q[h] > 0 => record_q'[h] > 0
<1>1. r[1] \in Host  BY ReqHost
<1>. QED  BY <1>1 DEF TypeOK, Record

(* sm_mon, of lockd or of the other client.                                *)
LEMMA insert_monLockd ==
    ASSUME ClientsApart, TypeOK, LockdInv, NEW r \in Reqs, NEW n \in Nat, insert_mon(r, n),
           r \in LockdReqs => n = pid,
           UNCHANGED <<lockd, pid>>,
           me' = me \/ (me' = me \cup {r} /\ r \in LockdReqs),
           asking' \in {asking, NoReq},
           lockd = "run" \/ (me' = me /\ r \in OtherReqs)
    PROVE  LockdInv'
<1>. DEFINE t == Inserted(r, n)
<1>1. monitor_q \in Seq(Entry)  BY ListTypes
<1>2. InsertedAs(t, r, n) /\ monitor_q' = t  BY <1>1, InsertedFacts DEF insert_mon
<1>. HIDE DEF t
<1>3. Firm(monitor_q)'
  <2>1. Firm(t)  BY <1>2 DEF InsertedAs, LockdInv
  <2>. QED  BY <1>2, <2>1 DEF Firm
<1>4. statd' # "down" /\ alone' = alone /\ Record(r[1])
  BY DEF insert_mon, history
<1>5. ASSUME NEW i \in 1 .. Len(t)
      PROVE  \/ t[i].req = r /\ t[i].pid = n
             \/ \E k \in 1 .. Len(monitor_q) :
                   t[i].req = monitor_q[k].req /\ t[i].pid = monitor_q[k].pid
  BY <1>2 DEF InsertedAs
<1>6. ASSUME NEW i \in 1 .. Len(t)
      PROVE  /\ lockd = "cancelR" => t[i].req[2] # "PRIV_CRASH"
             /\ lockd = "simu" => t[i].req \notin LockdReqs
             /\ lockd = "run" /\ t[i].req \in LockdReqs
                   => t[i].pid = pid /\ record_q'[t[i].req[1]] > 0
  <2>1. CASE t[i].req = r /\ t[i].pid = n
    BY <1>4, <2>1, ReqKinds, RecordedMore
  <2>2. ASSUME NEW k \in 1 .. Len(monitor_q),
               t[i].req = monitor_q[k].req, t[i].pid = monitor_q[k].pid
        PROVE  /\ lockd = "cancelR" => t[i].req[2] # "PRIV_CRASH"
               /\ lockd = "simu" => t[i].req \notin LockdReqs
               /\ lockd = "run" /\ t[i].req \in LockdReqs
                     => t[i].pid = pid /\ record_q'[t[i].req[1]] > 0
    <3>1. t[i].req \in LockdReqs => t[i].req[1] \in Host  BY ReqKinds, ReqHost
    <3>. QED  BY <1>4, <2>2, <3>1, RecordedMore DEF LockdInv
  <2>. QED  BY <1>5, <2>1, <2>2
<1>7. ASSUME lockd = "run", ~alone, NEW q \in me'
      PROVE  \E i \in 1 .. Len(t) : t[i].req = q /\ t[i].pid = pid
  <2>1. CASE q \in me
    <3>1. PICK k \in 1 .. Len(monitor_q) : monitor_q[k].req = q /\ monitor_q[k].pid = pid
      BY <1>7, <2>1 DEF LockdInv
    <3>. QED  BY <1>2, <3>1 DEF InsertedAs
  <2>2. CASE q = r /\ r \in LockdReqs
    <3>1. PICK i \in 1 .. Len(t) : t[i].req = r  BY <1>2 DEF InsertedAs
    <3>. QED  BY <1>6, <1>7, <2>2, <3>1
  <2>. QED  BY <2>1, <2>2
<1>8. lockd # "run" => me' = {} /\ asking' = NoReq
  BY DEF LockdInv
<1>. QED  BY <1>2, <1>3, <1>4, <1>6, <1>7, <1>8 DEF LockdInv

(* sm_unmon of the other client takes nothing of lockd's.                  *)
LEMMA sm_unmonLockd ==
    ASSUME ClientsApart, TypeOK, LockdInv, NEW r \in OtherReqs, sm_unmon(r)
    PROVE  LockdInv'
<1>1. monitor_q \in Seq(Entry) /\ Firm(monitor_q)
  BY ListTypes DEF LockdInv
<1>2. PICK R \in SUBSET OtherReqs : R = {r}  OBVIOUS
<1>3. PICK t : t = Deleted(R)  OBVIOUS
<1>4. monitor_q' = t  BY <1>2, <1>3 DEF sm_unmon
<1>5. /\ Firm(t)
      /\ \A i \in 1 .. Len(t) : \E j \in 1 .. Len(monitor_q) :
            monitor_q[j].req = t[i].req /\ monitor_q[j].pid = t[i].pid
  BY <1>1, <1>3, DeletedFacts
<1>6. \A j \in 1 .. Len(monitor_q) : monitor_q[j].req \notin R =>
         \E i \in 1 .. Len(t) : t[i].req = monitor_q[j].req /\ t[i].pid = monitor_q[j].pid
  BY <1>1, <1>3, DeletedSpares
<1>7. \A q \in LockdReqs : q[1] \in Host /\ record_q'[q[1]] = record_q[q[1]]
  <2>1. \A q \in LockdReqs : q[1] \in Host /\ q[1] # r[1]
    BY ReqKinds, ReqHost DEF ClientsApart
  <2>. QED  BY <2>1 DEF sm_unmon, Unrecord, TypeOK
<1>8. /\ UNCHANGED <<statd, lockd, pid, me, asking, alone>>
      /\ statd # "down"
  BY DEF sm_unmon, lockdvars, history
<1>9. Firm(monitor_q)'  BY <1>4, <1>5 DEF Firm
<1>10. ASSUME NEW i \in 1 .. Len(t)
       PROVE  /\ lockd = "cancelR" => t[i].req[2] # "PRIV_CRASH"
              /\ lockd = "simu" => t[i].req \notin LockdReqs
              /\ lockd = "run" /\ t[i].req \in LockdReqs
                    => t[i].pid = pid /\ record_q'[t[i].req[1]] > 0
  <2>1. PICK j \in 1 .. Len(monitor_q) :
           monitor_q[j].req = t[i].req /\ monitor_q[j].pid = t[i].pid
    BY <1>5
  <2>. QED  BY <1>7, <2>1 DEF LockdInv
<1>11. ASSUME lockd = "run", ~alone, NEW q \in me
       PROVE  \E i \in 1 .. Len(t) : t[i].req = q /\ t[i].pid = pid
  <2>1. PICK k \in 1 .. Len(monitor_q) : monitor_q[k].req = q /\ monitor_q[k].pid = pid
    BY <1>11 DEF LockdInv
  <2>2. q \notin R  BY <1>2, ReqKinds DEF TypeOK
  <2>. QED  BY <1>6, <2>1, <2>2
<1>. QED  BY <1>4, <1>8, <1>9, <1>10, <1>11 DEF LockdInv

LEMMA LockdStepLockd ==
    ASSUME ClientsApart, TypeOK, RecordInv, LockdInv, LockdStep
    PROVE  LockdInv'
<1>. USE DEF files, queues, history
<1>0. Firm(monitor_q)' <=> Firm(monitor_q')  BY DEF Firm
<1>1. CASE LockdStarts
  <2>1. Firm(monitor_q)'  BY <1>1 DEF LockdStarts, LockdInv, Firm
  <2>. QED  BY <1>1, <2>1, LockdCancels DEF LockdStarts, LockdInv
<1>2. CASE CancelCrash \/ CancelRecovery
  BY <1>2, CancelLockd
<1>3. CASE SimuCrash
  <2>1. /\ lockd = "simu" /\ lockd' \in {"simu", "run"} /\ statd' # "down"
        /\ UNCHANGED <<monitor_q, me, asking>>
    <3>1. CASE record_q = Empty  BY <1>3, <3>1 DEF SimuCrash, sm_crash
    <3>2. CASE record_q # Empty  BY <1>3, <3>2 DEF SimuCrash, sm_crash, StartInit
    <3>. QED  BY <3>1, <3>2
  <2>2. \A k \in 1 .. Len(monitor_q) : monitor_q[k].req \notin LockdReqs
    BY <2>1 DEF LockdInv
  <2>3. CASE lockd' = "simu"
    <3>1. Firm(monitor_q)'  BY <2>1 DEF LockdInv, Firm
    <3>. QED  BY <2>1, <2>2, <2>3, <3>1, LockdCancels
  <2>4. CASE lockd' = "run"
    BY <2>1, <2>2, <2>4, LockdRuns
  <2>. QED  BY <2>1, <2>3, <2>4
<1>4. CASE CancelFails
  <2>1. /\ monitor_q = << >> /\ UNCHANGED <<monitor_q, me, asking>>
        /\ lockd # "run" /\ lockd' \in {"simu", "run"}
    BY <1>4 DEF CancelFails, LockdInv
  <2>2. Firm(monitor_q)'  BY <2>1 DEF LockdInv, Firm
  <2>3. \A k \in 1 .. Len(monitor_q) : monitor_q[k].req \notin LockdReqs  BY <2>1
  <2>. QED  BY <2>1, <2>2, <2>3, LockdRuns, LockdCancels
<1>5. ASSUME NEW r \in LockdReqs, Ask(r) PROVE LockdInv'
  BY <1>5 DEF Ask, LockdInv, Firm
<1>6. CASE Asked
  <2>1. asking \in LockdReqs /\ asking \in Reqs /\ pid \in Nat /\ lockd = "run"
    BY <1>6 DEF Asked, TypeOK, Reqs, LockdInv
  <2>. QED  BY <1>6, <2>1, insert_monLockd DEF Asked
<1>7. CASE AskFails
  BY <1>7 DEF AskFails, LockdInv, Firm
<1>. QED  BY <1>1, <1>2, <1>3, <1>4, <1>5, <1>6, <1>7 DEF LockdStep

LEMMA LockdInvStep ==
    ASSUME ClientsApart, TypeOK, RecordInv, LockdInv, [Next]_vars
    PROVE  LockdInv'
<1>. USE DEF files, queues, lockdvars, history
<1>1. CASE InitStep
  <2>1. /\ UNCHANGED <<monitor_q, record_q, lockd, pid, me, asking, alone>>
        /\ statd' = "down" => statd = "down"
    BY <1>1 DEF InitStep, Boot, StartInit, ReadBackup, Unlink, InitDone, Rename, CallOK,
                CallFails, Notified
  <2>. QED  BY <2>1, LockdUnchanged
<1>2. ASSUME NEW S \in SUBSET Host, sm_try(S) PROVE LockdInv'
  BY <1>2, LockdUnchanged DEF sm_try, Notified
<1>3. CASE LockdStep
  BY <1>3, LockdStepLockd
<1>4. ASSUME NEW r \in OtherReqs, OtherMons(r) PROVE LockdInv'
  <2>1. r \in Reqs /\ 0 \in Nat /\ r \notin LockdReqs  BY ReqKinds
  <2>. QED  BY <1>4, <2>1, insert_monLockd DEF OtherMons
<1>5. ASSUME NEW r \in OtherReqs, OtherUnmons(r) PROVE LockdInv'
  BY <1>5, sm_unmonLockd DEF OtherUnmons
<1>6. CASE MachineCrash
  BY <1>6 DEF MachineCrash, StatdLost, LockdLost, LockdInv, Firm
<1>7. CASE StatdCrash
  <2>1. monitor_q' = << >> /\ UNCHANGED <<lockd, pid, me, asking>> /\ (lockd = "run" => alone')
    BY <1>7 DEF StatdCrash, StatdLost
  <2>. QED  BY <2>1 DEF LockdInv, Firm
<1>8. CASE LockdCrash
  BY <1>8 DEF LockdCrash, LockdLost, LockdInv, Firm
<1>9. CASE UNCHANGED vars
  BY <1>9, LockdUnchanged DEF vars
<1>. QED  BY <1>1, <1>2, <1>3, <1>4, <1>5, <1>6, <1>7, <1>8, <1>9 DEF Next

LEMMA MonInit == Init => RecordInv /\ LockdInv
BY DEF Init, RecordInv, LockdInv, Firm, Empty

LEMMA MonInductive ==
    ASSUME ClientsApart
    PROVE  Spec => [](TypeOK /\ RecordInv /\ LockdInv)
<1>1. TypeOK /\ RecordInv /\ LockdInv /\ [Next]_vars => (TypeOK /\ RecordInv /\ LockdInv)'
  BY TypeStep, RecordStep, LockdInvStep
<1>. QED  BY <1>1, TypeInit, MonInit, PTL DEF Spec

(* What is recorded, and what lockd monitors, has its file in CURRENT at   *)
(* every step, so that the unlink of record_name finds it, however often   *)
(* requests are repeated, cancelled or cut short by crashes; as long as    *)
(* the two clients monitor different hosts.                                *)
THEOREM RecordsKept ==
    ASSUME ClientsApart
    PROVE  Spec => []RecordsOnDisk
<1>1. TypeOK /\ RecordInv /\ LockdInv => RecordsOnDisk
  <2>. SUFFICES ASSUME TypeOK, RecordInv, LockdInv PROVE RecordsOnDisk
    OBVIOUS
  <2>1. \A r \in LockdReqs : r[1] \in Host  BY ReqKinds, ReqHost
  <2>. QED  BY <2>1 DEF RecordInv, LockdInv, RecordsOnDisk
<1>. QED  BY <1>1, MonInductive, PTL

(* Whatever lockd remembers to have asked for is in statd's list, under    *)
(* the pid that lockd has now, although insert_mon keeps an old entry with *)
(* its old pid and delete_mon may cut the list off: cancel_mon has removed *)
(* the entries of the lockd before, and the other client's deletions find  *)
(* their prev pointers set.                                                *)
THEOREM NoticesReach ==
    ASSUME ClientsApart
    PROVE  Spec => []NoticeReaches
<1>1. LockdInv => NoticeReaches
  BY DEF LockdInv, NoticeReaches, Heard, Same
<1>. QED  BY <1>1, MonInductive, PTL
=============================================================================
