-------------------------- MODULE MigaduSyncProofs --------------------------
(* What the password sync keeps for any number of users, mailboxes, web     *)
(* requests, attempts and failures.                                        *)
EXTENDS MigaduSync, TLAPS

LEMMA TaskKnown == (CHOOSE t \in Task : TRUE) \in Task
<1>1. PICK u \in Users, p \in Passwords : TRUE
  BY MigaduAssumption
<1>2. [user |-> u, box |-> NoBox, password |-> p] \in Task
  BY DEF Task, Addresses
<1> QED
  BY <1>2

LEMMA ResolveKnown ==
  ASSUME NEW u \in Users, NEW adr \in Addresses
  PROVE  Resolve(u, adr) \in Addresses
BY DEF Resolve, Addresses

LEMMA TypeInitially ==
  ASSUME Init
  PROVE  TypeOK
BY TaskKnown, MigaduAssumption DEF Init, TypeOK, Point, Calling

(* What Retry leaves behind.                                               *)
LEMMA Retried ==
  ASSUME TypeOK, NEW r \in Requests, pc[r] \in Calling, Retry(r)
  PROVE  /\ attempt' \in [Requests -> 1..MaxAttempts]
         /\ pc' = pc \/ pc' = [pc EXCEPT ![r] = "failed"]
BY MigaduAssumption DEF Retry, Goto, TypeOK

(* What a call does to the host's mailboxes.                               *)
LEMMA DoneRight ==
  ASSUME TypeOK, NEW c \in Call, c.task.box \in Mailboxes, Does(c)
  PROVE  server' \in [Mailboxes -> Passwords \cup {Absent}]
<1>1. c.task.password \in Passwords
  BY DEF Call, Task
<1> QED
  BY <1>1 DEF Does, TypeOK

LEMMA CallKnown ==
  ASSUME TypeOK, NEW r \in Requests, pc[r] \in Calling
  PROVE  CallOf(r) \in Call /\ CallOf(r).task = task[r] /\ CallOf(r).method = pc[r]
         /\ task[r].box \in Mailboxes
BY DEF CallOf, Call, TypeOK

LEMMA TypeStep ==
  ASSUME TypeOK, Next
  PROVE  TypeOK'
<1> USE MigaduAssumption
<1>1. ASSUME NEW u \in Users, NEW adr \in Addresses, SetAddress(u, adr)
      PROVE  TypeOK'
  BY <1>1 DEF SetAddress, history, TypeOK
<1>2. ASSUME NEW r \in Requests, NEW u \in Users, NEW p \in Passwords,
             NEW box \in Addresses, Sync(r, u, box, p), Event(r)
      PROVE  /\ task' \in [Requests -> Task] /\ pc' \in [Requests -> Point]
             /\ attempt' \in [Requests -> 1..MaxAttempts]
             /\ \A s \in Requests : pc'[s] \in Calling \cup {"ok"} => task'[s].box \in Mailboxes
             /\ alone' \subseteq Requests /\ misled' \subseteq Requests
             /\ events' \in 0..MaxEvents
             /\ UNCHANGED <<server, late, faults>>
  <2>1. [user |-> u, box |-> box, password |-> p] \in Task
    BY DEF Task
  <2>2. task' \in [Requests -> Task] /\ pc' \in [Requests -> Point]
    BY <1>2, <2>1 DEF Sync, Goto, TypeOK, Point
  <2>3. attempt' \in [Requests -> 1..MaxAttempts]
    BY <1>2 DEF Sync, Goto, TypeOK
  <2>4. /\ alone' \subseteq Requests /\ misled' \subseteq Requests /\ events' \in 0..MaxEvents
        /\ UNCHANGED <<server, late, faults>>
    BY <1>2 DEF Event, TypeOK
  <2>5. ASSUME NEW s \in Requests, pc'[s] \in Calling \cup {"ok"}
        PROVE  task'[s].box \in Mailboxes
    BY <1>2, <2>5 DEF Sync, Goto, TypeOK, Calling, Addresses
  <2> QED
    BY <2>2, <2>3, <2>4, <2>5
<1>3. ASSUME NEW r \in Requests, NEW u \in Users, NEW p \in Passwords, SetPassword(r, u, p)
      PROVE  TypeOK'
  <2>1. Resolve(u, address[u]) \in Addresses
    BY ResolveKnown DEF TypeOK
  <2>2. Event(r) /\ Sync(r, u, Resolve(u, address[u]), p)
    BY <1>3 DEF SetPassword
  <2> QED
    BY <1>2, <1>3, <2>1, <2>2 DEF SetPassword, TypeOK
<1>4. ASSUME NEW r \in Requests, NEW u \in Users, NEW p \in Passwords, NEW adr \in Addresses,
             CreateUser(r, u, p, adr)
      PROVE  TypeOK'
  <2>1. Event(r) /\ Sync(r, u, Resolve(u, adr), p)
    BY <1>4 DEF CreateUser
  <2> QED
    BY <1>2, <1>4, <2>1, ResolveKnown DEF CreateUser, TypeOK
<1>5. ASSUME NEW r \in Requests, NEW u \in Users, BeforeDelete(r, u)
      PROVE  TypeOK'
  <2>1. Resolve(u, address[u]) \in Addresses
    BY ResolveKnown DEF TypeOK
  <2>2. task' \in [Requests -> Task]
    BY <1>5, <2>1 DEF BeforeDelete, TypeOK, Task
  <2>3. pc' \in [Requests -> Point] /\ attempt' \in [Requests -> 1..MaxAttempts]
    BY <1>5 DEF BeforeDelete, Goto, TypeOK, Point
  <2>4. ASSUME NEW s \in Requests, pc'[s] \in Calling \cup {"ok"}
        PROVE  task'[s].box \in Mailboxes
    BY <1>5, <2>4 DEF BeforeDelete, Goto, TypeOK, Calling
  <2> QED
    BY <1>5, <2>2, <2>3, <2>4 DEF BeforeDelete, Event, nextcloud, history, TypeOK
<1>6. ASSUME NEW r \in Requests, UserDeleted(r)
      PROVE  TypeOK'
  BY <1>6 DEF UserDeleted, Goto, history, TypeOK, Point, Calling, Task
<1>7. ASSUME NEW r \in Requests, DeletionAborted(r) \/ Return(r)
      PROVE  TypeOK'
  BY <1>7 DEF DeletionAborted, Return, Goto, nextcloud, history, TypeOK, Point, Calling
<1>8. ASSUME NEW r \in Requests, pc[r] \in Calling, Retry(r)
      PROVE  /\ pc' \in [Requests -> Point] /\ attempt' \in [Requests -> 1..MaxAttempts]
             /\ \A s \in Requests : pc'[s] \in Calling \cup {"ok"} => pc[s] = pc'[s]
  BY <1>8, Retried DEF TypeOK, Point, Calling
<1>9. ASSUME NEW r \in Requests, Served(r)
      PROVE  TypeOK'
  <2>1. pc[r] \in Calling /\ Does(CallOf(r))
    BY <1>9 DEF Served
  <2>2. server' \in [Mailboxes -> Passwords \cup {Absent}] /\ task[r].box \in Mailboxes
    BY <2>1, CallKnown, DoneRight
  <2>3. CASE Accepted(CallOf(r))
    BY <1>9, <2>1, <2>2, <2>3 DEF Served, Goto, nextcloud, history, TypeOK, Point, Calling
  <2>4. CASE ~ Accepted(CallOf(r))
    BY <1>8, <1>9, <2>1, <2>2, <2>4 DEF Served, nextcloud, history, TypeOK
  <2> QED
    BY <2>3, <2>4
<1>10. ASSUME NEW r \in Requests, Refused(r)
       PROVE  TypeOK'
  <2>1. CASE Retry(r) /\ UNCHANGED misled
    BY <1>8, <1>10, <2>1 DEF Refused, Fault, nextcloud, TypeOK
  <2>2. CASE pc[r] = "delete" /\ Goto(r, "ok") /\ misled' = misled \cup {r}
    BY <1>10, <2>2 DEF Refused, Fault, Goto, nextcloud, TypeOK, Point, Calling
  <2> QED
    BY <1>10, <2>1, <2>2 DEF Refused
<1>11. ASSUME NEW r \in Requests, TimesOut(r)
       PROVE  TypeOK'
  <2>1. pc[r] \in Calling /\ Retry(r) /\ faults' \in 0..MaxFaults
    BY <1>11 DEF TimesOut, Fault, TypeOK
  <2>2. server' \in [Mailboxes -> Passwords \cup {Absent}]
    BY <1>11, <2>1, CallKnown, DoneRight DEF TimesOut, TypeOK
  <2>3. late' \subseteq Call /\ \A c \in late' : c.task.box \in Mailboxes
    BY <1>11, <2>1, CallKnown DEF TimesOut, TypeOK
  <2> QED
    BY <1>8, <1>11, <2>1, <2>2, <2>3 DEF TimesOut, nextcloud, history, TypeOK
<1>12. ASSUME NEW r \in Requests, Raises(r)
       PROVE  TypeOK'
  BY <1>12 DEF Raises, Fault, Goto, nextcloud, history, TypeOK, Point, Calling
<1>13. ASSUME NEW c \in late, Arrives(c) \/ Vanishes(c)
       PROVE  TypeOK'
  <2>1. server' \in [Mailboxes -> Passwords \cup {Absent}]
    BY <1>13, DoneRight DEF Arrives, Vanishes, TypeOK
  <2> QED
    BY <1>13, <2>1 DEF Arrives, Vanishes, nextcloud, history, TypeOK
<1> QED
  BY <1>1, <1>3, <1>4, <1>5, <1>6, <1>7, <1>9, <1>10, <1>11, <1>12, <1>13
     DEF Next, Admin, Progress, Failure

(* Every variable of the password sync keeps its meaning: a call, made or   *)
(* late, has a mailbox to call about.                                      *)
THEOREM TypeCorrect == Spec => []TypeOK
<1>1. TypeOK /\ UNCHANGED vars => TypeOK'
  BY DEF TypeOK, vars, nextcloud, history
<1> QED
  BY <1>1, TypeInitially, TypeStep, PTL DEF Spec

-----------------------------------------------------------------------------
(* A DELETE is a step of the request whose removal went through.            *)
LEMMA DeleteStep ==
  ASSUME TypeOK, DeleteNeedsRemoval, Next
  PROVE  DeleteNeedsRemoval'
<1>1. ASSUME NEW r \in Requests, NEW u \in Users, NEW p \in Passwords,
             NEW box \in Addresses, Sync(r, u, box, p), Event(r), UNCHANGED removed
      PROVE  DeleteNeedsRemoval'
  BY <1>1 DEF Sync, Event, Goto, TypeOK, DeleteNeedsRemoval
<1>2. ASSUME NEW r \in Requests, NEW u \in Users, NEW p \in Passwords,
             \/ SetPassword(r, u, p)
             \/ \E adr \in Addresses : CreateUser(r, u, p, adr)
      PROVE  DeleteNeedsRemoval'
  BY <1>1, <1>2, ResolveKnown DEF SetPassword, CreateUser, TypeOK
<1>3. ASSUME NEW r \in Requests, NEW u \in Users, BeforeDelete(r, u)
      PROVE  DeleteNeedsRemoval'
  BY <1>3 DEF BeforeDelete, Event, Goto, nextcloud, history, TypeOK, DeleteNeedsRemoval
<1>4. ASSUME NEW r \in Requests, UserDeleted(r)
      PROVE  DeleteNeedsRemoval'
  BY <1>4 DEF UserDeleted, Goto, TypeOK, DeleteNeedsRemoval
<1>5. ASSUME NEW r \in Requests, DeletionAborted(r) \/ Return(r) \/ Raises(r)
      PROVE  DeleteNeedsRemoval'
  BY <1>5 DEF DeletionAborted, Return, Raises, Goto, nextcloud, history, TypeOK, DeleteNeedsRemoval
<1>6. ASSUME NEW r \in Requests, pc[r] \in Calling, Retry(r), UNCHANGED <<task, removed>>
      PROVE  \A s \in Requests : pc'[s] = "delete" => task'[s].user \in removed'
  BY <1>6, Retried DEF TypeOK, DeleteNeedsRemoval
<1>7. ASSUME NEW r \in Requests, Served(r)
      PROVE  DeleteNeedsRemoval'
  <2>1. CASE Accepted(CallOf(r))
    BY <1>7, <2>1 DEF Served, Goto, nextcloud, history, TypeOK, DeleteNeedsRemoval
  <2>2. CASE ~ Accepted(CallOf(r))
    BY <1>6, <1>7, <2>2 DEF Served, nextcloud, history, DeleteNeedsRemoval
  <2> QED
    BY <2>1, <2>2
<1>8. ASSUME NEW r \in Requests, Refused(r)
      PROVE  DeleteNeedsRemoval'
  <2>1. CASE Retry(r)
    BY <1>6, <1>8, <2>1 DEF Refused, nextcloud, DeleteNeedsRemoval
  <2>2. CASE Goto(r, "ok")
    BY <1>8, <2>2 DEF Refused, Goto, nextcloud, TypeOK, DeleteNeedsRemoval
  <2> QED
    BY <1>8, <2>1, <2>2 DEF Refused
<1>9. ASSUME NEW r \in Requests, TimesOut(r)
      PROVE  DeleteNeedsRemoval'
  BY <1>6, <1>9 DEF TimesOut, CallOf, nextcloud, history, DeleteNeedsRemoval
<1>10. ASSUME NEW c \in late, Arrives(c) \/ Vanishes(c)
       PROVE  DeleteNeedsRemoval'
  BY <1>10 DEF Arrives, Vanishes, nextcloud, history, DeleteNeedsRemoval
<1>11. ASSUME NEW u \in Users, NEW adr \in Addresses, SetAddress(u, adr)
       PROVE  DeleteNeedsRemoval'
  BY <1>11 DEF SetAddress, DeleteNeedsRemoval
<1> QED
  BY <1>2, <1>3, <1>4, <1>5, <1>7, <1>8, <1>9, <1>10, <1>11 DEF Next, Admin, Progress, Failure

(* A mailbox is deleted, at once or by a call that arrives late, only after *)
(* Nextcloud has removed its user (PasswordSyncListener: the two events).   *)
THEOREM DeletionFollowsRemoval == Spec => []DeleteNeedsRemoval
<1>1. Init => DeleteNeedsRemoval
  BY DEF Init, DeleteNeedsRemoval
<1>2. DeleteNeedsRemoval /\ UNCHANGED vars => DeleteNeedsRemoval'
  BY DEF DeleteNeedsRemoval, vars, nextcloud, history
<1> QED
  BY <1>1, <1>2, DeleteStep, TypeCorrect, PTL DEF Spec

-----------------------------------------------------------------------------
(* The late calls of a request that sets a password, of one that deletes.   *)
Syncing(r) ==
  /\ task[r].user \in exists
  /\ task[r].password = password[task[r].user]
  /\ \A c \in late : c.method # "delete"

Deleting(r) ==
  /\ task[r].user \notin exists
  /\ \A c \in late : c.method = "delete"

(* A request that is alone owns all late calls; whatever they do, they do   *)
(* not undo what its success has done.                                     *)
Undisturbed(r) ==
  /\ \A s \in Requests \ {r} : pc[s] = "idle"
  /\ \A c \in late : c.task = task[r]
  /\ pc[r] = "captured" => late = {}
  /\ pc[r] \in {"get", "post", "put"} => Syncing(r)
  /\ pc[r] = "delete" => Deleting(r)
  /\ pc[r] = "ok" => \/ Syncing(r) /\ server[task[r].box] = task[r].password
                     \/ Deleting(r) /\ (server[task[r].box] = Absent \/ r \in misled)

AloneInv == \A r \in alone : alone = {r} /\ Undisturbed(r)

(* Who begins alone begins with nothing late.                              *)
LEMMA BeginsAlone ==
  ASSUME TypeOK, NEW r \in Requests, Event(r), NEW s \in alone'
  PROVE  /\ s = r /\ alone' = {r} /\ late' = {}
         /\ \A t \in Requests : pc[t] = "idle"
BY DEF Event, TypeOK

LEMMA SyncBegins ==
  ASSUME TypeOK, NEW r \in Requests, NEW u \in Users, NEW p \in Passwords,
         NEW box \in Addresses, Sync(r, u, box, p), Event(r),
         u \in exists', password'[u] = p
  PROVE  AloneInv'
<1> SUFFICES ASSUME NEW s \in alone'
             PROVE  alone' = {s} /\ Undisturbed(s)'
  BY DEF AloneInv
<1>1. s = r /\ alone' = {r} /\ late' = {} /\ \A t \in Requests : pc[t] = "idle"
  BY BeginsAlone
<1>2. task'[r] = [user |-> u, box |-> box, password |-> p]
  BY DEF Sync, TypeOK
<1>3. pc'[r] \in {"idle", "failed", "get"} /\ \A t \in Requests \ {r} : pc'[t] = "idle"
  BY <1>1 DEF Sync, Goto, TypeOK
<1> QED
  BY <1>1, <1>2, <1>3 DEF Undisturbed, Syncing

(* A call of the request that is alone, made or late, done by the host.     *)
LEMMA AloneCall ==
  ASSUME TypeOK, NEW r \in Requests, Undisturbed(r), NEW c \in Call, c.task = task[r],
         task[r].box \in Mailboxes, Does(c), pc[r] = "ok",
         \/ Syncing(r) /\ c.method # "delete"
         \/ Deleting(r) /\ c.method = "delete"
  PROVE  \/ server'[task[r].box] = server[task[r].box]
         \/ Deleting(r) /\ server'[task[r].box] = Absent
<1>1. task[r].password \in Passwords /\ Absent \notin Passwords
  BY MigaduAssumption DEF TypeOK, Task
<1>2. CASE Syncing(r) /\ c.method # "delete"
  BY <1>1, <1>2 DEF Undisturbed, Deleting, Syncing, Does, TypeOK
<1>3. CASE Deleting(r) /\ c.method = "delete"
  BY <1>1, <1>3 DEF Undisturbed, Deleting, Syncing, Does, TypeOK
<1> QED
  BY <1>2, <1>3

(* The request goes back, ends in failure or repeats its call.              *)
LEMMA AloneRests ==
  ASSUME TypeOK, AloneInv, NEW r \in Requests,
         pc' = pc \/ pc' = [pc EXCEPT ![r] = "failed"] \/ pc' = [pc EXCEPT ![r] = "idle"],
         pc[r] # "idle", pc[r] # "ok" \/ pc' # pc,
         \A t \in Requests \ {r} : t \in alone => pc[r] = "idle",
         UNCHANGED <<alone, exists, password, task>>,
         \/ late' = late
         \/ late' = late \cup {CallOf(r)} /\ pc[r] \in Calling
  PROVE  AloneInv'
<1> SUFFICES ASSUME NEW s \in alone'
             PROVE  alone' = {s} /\ Undisturbed(s)'
  BY DEF AloneInv
<1>1. s \in alone /\ alone = {s} /\ Undisturbed(s) /\ s \in Requests
  BY DEF AloneInv, TypeOK
<1>2. s = r
  BY <1>1
<1>3. \A c \in late' : c.task = task'[r]
  BY <1>1, <1>2 DEF Undisturbed, CallOf
<1>4. \A t \in Requests \ {r} : pc'[t] = "idle"
  BY <1>1, <1>2 DEF Undisturbed, TypeOK
<1>5. pc'[r] \in {"idle", "failed"} \/ pc' = pc
  BY DEF TypeOK
<1>6. CASE pc'[r] \in {"idle", "failed"}
  BY <1>1, <1>2, <1>3, <1>4, <1>6 DEF Undisturbed
<1>7. CASE pc' = pc /\ pc'[r] \notin {"idle", "failed"}
  <2>1. pc[r] # "ok"
    BY <1>7
  <2>2. CASE pc[r] = "captured"
    BY <1>1, <1>2, <1>3, <1>4, <1>7, <2>2 DEF Undisturbed, Calling
  <2>3. CASE pc[r] = "delete"
    BY <1>1, <1>2, <1>3, <1>4, <1>7, <2>3 DEF Undisturbed, Deleting, CallOf
  <2>4. CASE pc[r] \in {"get", "post", "put"}
    BY <1>1, <1>2, <1>3, <1>4, <1>7, <2>4 DEF Undisturbed, Syncing, CallOf
  <2> QED
    BY <1>7, <2>1, <2>2, <2>3, <2>4 DEF TypeOK, Point
<1> QED
  BY <1>5, <1>6, <1>7

(* No other request is under way beside the one that is alone.             *)
LEMMA OthersRest ==
  ASSUME AloneInv, NEW r \in Requests, pc[r] # "idle", NEW t \in alone
  PROVE  t = r
BY DEF AloneInv, Undisturbed

LEMMA AloneStep ==
  ASSUME TypeOK, AloneInv, Next
  PROVE  AloneInv'
<1>1. ASSUME NEW u \in Users, NEW adr \in Addresses, SetAddress(u, adr)
      PROVE  AloneInv'
  BY <1>1 DEF SetAddress, history, AloneInv, Undisturbed, Syncing, Deleting
<1>2. ASSUME NEW r \in Requests, NEW u \in Users, NEW p \in Passwords, SetPassword(r, u, p)
      PROVE  AloneInv'
  <2>1. Resolve(u, address[u]) \in Addresses
    BY ResolveKnown DEF TypeOK
  <2>2. u \in exists' /\ password'[u] = p
    BY <1>2 DEF SetPassword, TypeOK
  <2> QED
    BY <1>2, <2>1, <2>2, SyncBegins DEF SetPassword
<1>3. ASSUME NEW r \in Requests, NEW u \in Users, NEW p \in Passwords, NEW adr \in Addresses,
             CreateUser(r, u, p, adr)
      PROVE  AloneInv'
  <2>1. u \in exists' /\ password'[u] = p
    BY <1>3 DEF CreateUser, TypeOK
  <2> QED
    BY <1>3, <2>1, ResolveKnown, SyncBegins DEF CreateUser
<1>4. ASSUME NEW r \in Requests, NEW u \in Users, BeforeDelete(r, u)
      PROVE  AloneInv'
  <2> SUFFICES ASSUME NEW s \in alone'
               PROVE  alone' = {s} /\ Undisturbed(s)'
    BY DEF AloneInv
  <2>1. s = r /\ alone' = {r} /\ late' = {} /\ \A t \in Requests : pc[t] = "idle"
    BY <1>4, BeginsAlone DEF BeforeDelete
  <2>2. pc'[r] = "captured" /\ \A t \in Requests \ {r} : pc'[t] = "idle"
    BY <1>4, <2>1 DEF BeforeDelete, Goto, TypeOK
  <2> QED
    BY <2>1, <2>2 DEF Undisturbed
<1>5. ASSUME NEW r \in Requests, UserDeleted(r)
      PROVE  AloneInv'
  <2> SUFFICES ASSUME NEW s \in alone'
               PROVE  alone' = {s} /\ Undisturbed(s)'
    BY DEF AloneInv
  <2>1. s = r /\ alone = {s} /\ Undisturbed(s) /\ pc[r] = "captured"
    BY <1>5, OthersRest DEF UserDeleted, history, AloneInv
  <2>2. late' = {} /\ task' = task /\ task[r].user \notin exists' /\ alone' = alone
    BY <1>5, <2>1 DEF UserDeleted, history, Undisturbed
  <2>3. pc'[r] \in {"idle", "delete"} /\ \A t \in Requests \ {r} : pc'[t] = "idle"
    BY <1>5, <2>1 DEF UserDeleted, Goto, Undisturbed, TypeOK
  <2> QED
    BY <2>1, <2>2, <2>3 DEF Undisturbed, Deleting
<1>6. ASSUME NEW r \in Requests, DeletionAborted(r) \/ Return(r) \/ Raises(r)
      PROVE  AloneInv'
  <2>1. /\ pc[r] # "idle" /\ UNCHANGED <<alone, exists, password, task, late>>
        /\ pc' = [pc EXCEPT ![r] = "failed"] \/ pc' = [pc EXCEPT ![r] = "idle"]
    BY <1>6 DEF DeletionAborted, Return, Raises, Goto, nextcloud, history, Calling
  <2>2. pc' # pc \/ pc[r] # "ok"
    BY <1>6 DEF DeletionAborted, Return, Raises, Goto, Calling, TypeOK
  <2> QED
    BY <2>1, <2>2, OthersRest, AloneRests
<1>7. ASSUME NEW r \in Requests, pc[r] \in Calling, Retry(r),
             UNCHANGED <<alone, exists, password, task>>,
             late' = late \/ late' = late \cup {CallOf(r)}
      PROVE  AloneInv'
  <2>1. pc[r] # "idle" /\ pc[r] # "ok"
    BY <1>7 DEF Calling
  <2>2. pc' = pc \/ pc' = [pc EXCEPT ![r] = "failed"]
    BY <1>7, Retried
  <2> QED
    BY <1>7, <2>1, <2>2, OthersRest, AloneRests
<1>8. ASSUME NEW r \in Requests, Served(r)
      PROVE  AloneInv'
  <2>1. pc[r] \in Calling /\ Does(CallOf(r)) /\ UNCHANGED <<nextcloud, late, task, alone, misled>>
    BY <1>8 DEF Served, history
  <2>2. CASE ~ Accepted(CallOf(r))
    BY <1>7, <1>8, <2>1, <2>2 DEF Served, nextcloud, history
  <2>3. CASE Accepted(CallOf(r))
    <3> SUFFICES ASSUME NEW s \in alone'
                 PROVE  alone' = {s} /\ Undisturbed(s)'
      BY DEF AloneInv
    <3>1. s = r /\ alone = {s} /\ Undisturbed(s)
      BY <2>1, OthersRest DEF AloneInv, Calling
    <3>2. \A t \in Requests \ {r} : pc'[t] = "idle"
      BY <1>8, <2>3, <3>1 DEF Served, Goto, Undisturbed, TypeOK
    <3>3. \A c \in late' : c.task = task'[r]
      BY <2>1, <3>1 DEF Undisturbed
    <3>4. task[r].box \in Mailboxes
      BY <2>1, CallKnown
    <3>5. CASE pc[r] = "get"
      <4>1. pc'[r] \in {"post", "put"}
        BY <1>8, <2>3, <3>5 DEF Served, Goto, TypeOK
      <4> QED
        BY <2>1, <3>1, <3>2, <3>3, <3>5, <4>1 DEF Undisturbed, Syncing, nextcloud
    <3>6. CASE pc[r] \in {"post", "put"}
      <4>1. pc'[r] = "ok"
        BY <1>8, <2>3, <3>6 DEF Served, Goto, TypeOK
      <4>2. server'[task[r].box] = task[r].password
        BY <2>1, <2>3, <3>4, <3>6 DEF Does, Accepted, CallOf, TypeOK
      <4> QED
        BY <2>1, <3>1, <3>2, <3>3, <3>6, <4>1, <4>2 DEF Undisturbed, Syncing, nextcloud
    <3>7. CASE pc[r] = "delete"
      <4>1. pc'[r] = "ok"
        BY <1>8, <2>3, <3>7 DEF Served, Goto, TypeOK
      <4>2. server'[task[r].box] = Absent
        BY <2>1, <3>4, <3>7 DEF Does, CallOf, TypeOK
      <4> QED
        BY <2>1, <3>1, <3>2, <3>3, <3>7, <4>1, <4>2 DEF Undisturbed, Deleting, nextcloud
    <3> QED
      BY <2>1, <3>5, <3>6, <3>7 DEF Calling
  <2> QED
    BY <2>2, <2>3
<1>9. ASSUME NEW r \in Requests, Refused(r) \/ TimesOut(r)
      PROVE  AloneInv'
  <2>1. CASE Retry(r)
    BY <1>7, <1>9, <2>1 DEF Refused, TimesOut, nextcloud, history
  <2>2. CASE Refused(r) /\ pc[r] = "delete" /\ Goto(r, "ok") /\ misled' = misled \cup {r}
    <3> SUFFICES ASSUME NEW s \in alone'
                 PROVE  alone' = {s} /\ Undisturbed(s)'
      BY DEF AloneInv
    <3>1. UNCHANGED <<nextcloud, server, late, task, alone>>
      BY <2>2 DEF Refused
    <3>2. s = r /\ alone = {s} /\ Undisturbed(s)
      BY <2>2, <3>1, OthersRest DEF AloneInv
    <3>3. pc'[r] = "ok" /\ \A t \in Requests \ {r} : pc'[t] = "idle"
      BY <2>2, <3>2 DEF Goto, Undisturbed, TypeOK
    <3>4. Deleting(r)'
      BY <2>2, <3>1, <3>2 DEF Undisturbed, Deleting, nextcloud
    <3> QED
      BY <2>2, <3>1, <3>2, <3>3, <3>4 DEF Undisturbed
  <2> QED
    BY <1>9, <2>1, <2>2 DEF Refused, TimesOut
<1>10. ASSUME NEW c \in late, Vanishes(c)
       PROVE  AloneInv'
  BY <1>10 DEF Vanishes, nextcloud, history, AloneInv, Undisturbed, Syncing, Deleting
<1>11. ASSUME NEW c \in late, Arrives(c)
       PROVE  AloneInv'
  <2> SUFFICES ASSUME NEW s \in alone'
               PROVE  alone' = {s} /\ Undisturbed(s)'
    BY DEF AloneInv
  <2>1. /\ s \in alone /\ alone = {s} /\ Undisturbed(s) /\ s \in Requests
        /\ UNCHANGED <<nextcloud, pc, task, alone, misled>> /\ late' = late \ {c} /\ Does(c)
        /\ c \in Call /\ c.task = task[s]
    BY <1>11 DEF Arrives, history, AloneInv, Undisturbed, TypeOK
  <2>2. CASE pc[s] = "ok"
    <3>1. task[s].box \in Mailboxes
      BY <2>2, <2>1 DEF TypeOK
    <3>2. \/ Syncing(s) /\ c.method # "delete"
          \/ Deleting(s) /\ c.method = "delete"
      BY <1>11, <2>1, <2>2 DEF Undisturbed, Syncing, Deleting
    <3>3. \/ server'[task[s].box] = server[task[s].box]
          \/ Deleting(s) /\ server'[task[s].box] = Absent
      BY <2>1, <2>2, <3>1, <3>2, AloneCall
    <3> QED
      BY <2>1, <2>2, <3>3 DEF Undisturbed, Syncing, Deleting, nextcloud
  <2>3. CASE pc[s] # "ok"
    BY <2>1, <2>3 DEF Undisturbed, Syncing, Deleting, nextcloud
  <2> QED
    BY <2>2, <2>3
<1> QED
  BY <1>1, <1>2, <1>3, <1>4, <1>5, <1>6, <1>8, <1>9, <1>10, <1>11
     DEF Next, Admin, Progress, Failure

(* A request that nothing overlapped and that reports success has brought   *)
(* the mailbox in step (MigaduProvider: "the NC password *is* the mailbox   *)
(* password"), whichever of its calls were lost, repeated or late; only a   *)
(* DELETE that was answered with a real error 500 may have done nothing.   *)
THEOREM SuccessIsInStep == Spec => []InStep
<1>1. Init => AloneInv
  BY DEF Init, AloneInv
<1>2. AloneInv /\ UNCHANGED vars => AloneInv'
  BY DEF AloneInv, Undisturbed, Syncing, Deleting, vars, nextcloud, history
<1>3. AloneInv => InStep
  BY DEF AloneInv, Undisturbed, Syncing, Deleting, InStep
<1> QED
  BY <1>1, <1>2, <1>3, AloneStep, TypeCorrect, PTL DEF Spec

-----------------------------------------------------------------------------
(* The end of a request.  A request makes at most MaxAttempts lookups and   *)
(* MaxAttempts changes (requestWithRetry); Distance counts what is left.    *)
LeftOver(a) == MaxAttempts + 1 - a

Distance(p, a) ==
  CASE p = "idle" -> 0
    [] p \in {"ok", "failed"} -> 1
    [] p \in {"post", "put", "delete"} -> 1 + LeftOver(a)
    [] p = "get" -> 1 + MaxAttempts + LeftOver(a)
    [] p = "captured" -> 2 + MaxAttempts + MaxAttempts

Left(r) == Distance(pc[r], attempt[r])

(* Until it is idle again, whatever changes a request brings it nearer to   *)
(* its end: by a step of its own, or not at all.                           *)
Shortens(r) ==
  pc[r] # "idle" => Left(r)' < Left(r) \/ UNCHANGED <<pc[r], attempt[r], task[r]>>

LEMMA DistanceBounds ==
  ASSUME NEW p \in Point, NEW a \in 1..MaxAttempts
  PROVE  Distance(p, a) \in 0..(2 + MaxAttempts + MaxAttempts)
BY MigaduAssumption DEF Point, Distance, LeftOver

(* The next call begins a stage below, one more try a step below.          *)
LEMMA NearerByStage ==
  ASSUME NEW a \in 1..MaxAttempts
  PROVE  /\ \A p \in Calling :
              /\ Distance("failed", 1) < Distance(p, a) /\ Distance("ok", 1) < Distance(p, a)
              /\ a < MaxAttempts => Distance(p, a + 1) < Distance(p, a)
         /\ \A p \in {"post", "put"} : Distance(p, 1) < Distance("get", a)
         /\ Distance("delete", 1) < Distance("captured", a)
         /\ Distance("idle", 1) < Distance("captured", a)
         /\ \A p \in {"ok", "failed"} : Distance("idle", 1) < Distance(p, a)
BY MigaduAssumption DEF Calling, Distance, LeftOver

LEMMA RetryShortens ==
  ASSUME TypeOK, NEW r \in Requests, pc[r] \in Calling, Retry(r)
  PROVE  Left(r)' < Left(r)
<1>1. attempt[r] \in 1..MaxAttempts
  BY DEF TypeOK
<1>2. \/ attempt[r] < MaxAttempts /\ pc'[r] = pc[r] /\ attempt'[r] = attempt[r] + 1
      \/ pc'[r] = "failed" /\ attempt'[r] = 1
  BY DEF Retry, Goto, TypeOK
<1> QED
  BY <1>1, <1>2, NearerByStage DEF Left

LEMMA StepShortens ==
  ASSUME TypeOK, NEW r \in Requests, Progress(r) \/ Failure(r)
  PROVE  Left(r)' < Left(r)
<1>1. attempt[r] \in 1..MaxAttempts
  BY DEF TypeOK
<1>2. CASE UserDeleted(r) \/ DeletionAborted(r)
  <2>1. pc[r] = "captured" /\ pc'[r] \in {"delete", "idle"} /\ attempt'[r] = 1
    BY <1>2 DEF UserDeleted, DeletionAborted, Goto, TypeOK
  <2> QED
    BY <1>1, <2>1, NearerByStage DEF Left
<1>3. CASE Served(r)
  <2>1. CASE Accepted(CallOf(r))
    <3>1. /\ pc[r] \in Calling /\ attempt'[r] = 1
          /\ pc[r] # "get" => pc'[r] = "ok"
          /\ pc[r] = "get" => pc'[r] \in {"post", "put"}
      BY <1>3, <2>1 DEF Served, Goto, TypeOK
    <3> QED
      BY <1>1, <3>1, NearerByStage DEF Left
  <2>2. CASE ~Accepted(CallOf(r))
    BY <1>3, <2>2, RetryShortens DEF Served
  <2> QED
    BY <2>1, <2>2
<1>4. CASE Return(r)
  <2>1. pc[r] \in {"ok", "failed"} /\ pc'[r] = "idle" /\ attempt'[r] = 1
    BY <1>4 DEF Return, Goto, TypeOK
  <2> QED
    BY <1>1, <2>1, NearerByStage DEF Left
<1>5. CASE Refused(r) \/ TimesOut(r)
  <2>1. CASE Retry(r)
    BY <1>5, <2>1, RetryShortens DEF Refused, TimesOut
  <2>2. CASE pc[r] = "delete" /\ Goto(r, "ok")
    <3>1. pc[r] \in Calling /\ pc'[r] = "ok" /\ attempt'[r] = 1
      BY <2>2 DEF Goto, TypeOK, Calling
    <3> QED
      BY <1>1, <3>1, NearerByStage DEF Left
  <2> QED
    BY <1>5, <2>1, <2>2 DEF Refused, TimesOut
<1>6. CASE Raises(r)
  <2>1. pc[r] \in Calling /\ pc'[r] = "failed" /\ attempt'[r] = 1
    BY <1>6 DEF Raises, Goto, TypeOK
  <2> QED
    BY <1>1, <2>1, NearerByStage DEF Left
<1> QED
  BY <1>2, <1>3, <1>4, <1>5, <1>6 DEF Progress, Failure

LEMMA OthersKeep ==
  ASSUME TypeOK, NEW r \in Requests, NEW s \in Requests, r # s,
         Admin(s) \/ Progress(s) \/ Failure(s)
  PROVE  UNCHANGED <<pc[r], attempt[r], task[r]>>
BY DEF Admin, BeforeDelete, SetPassword, CreateUser, Sync, Event, Progress, Failure, UserDeleted,
       DeletionAborted, Served, Return, Refused, TimesOut, Raises, Retry, Goto, TypeOK

(* Every request comes to its end in at most 2 * MaxAttempts calls,        *)
(* however the host answers or does not, and whatever other requests and    *)
(* late calls do: what EveryRequestReturns needs besides a scheduler that   *)
(* lets it go on (MigaduProvider.php, requestWithRetry).                   *)
THEOREM RequestsWearOut ==
  Spec => [](\A r \in Requests : Left(r) \in 0..(2 + MaxAttempts + MaxAttempts))
          /\ [][\A r \in Requests : Shortens(r)]_vars
<1>1. TypeOK => \A r \in Requests : Left(r) \in 0..(2 + MaxAttempts + MaxAttempts)
  BY DistanceBounds DEF TypeOK, Left
<1>2. TypeOK /\ [Next]_vars => [\A r \in Requests : Shortens(r)]_vars
  <2> SUFFICES ASSUME TypeOK, Next, NEW r \in Requests, pc[r] # "idle"
               PROVE  Left(r)' < Left(r) \/ UNCHANGED <<pc[r], attempt[r], task[r]>>
    BY DEF Shortens
  <2>1. CASE \E u \in Users, adr \in Addresses : SetAddress(u, adr)
    BY <2>1 DEF SetAddress
  <2>2. CASE \E c \in late : Arrives(c) \/ Vanishes(c)
    BY <2>2 DEF Arrives, Vanishes
  <2>3. ASSUME NEW s \in Requests, Admin(s) \/ Progress(s) \/ Failure(s)
        PROVE  Left(r)' < Left(r) \/ UNCHANGED <<pc[r], attempt[r], task[r]>>
    <3>1. CASE r # s
      BY <2>3, <3>1, OthersKeep
    <3>2. CASE r = s /\ Admin(s)
      BY <3>2 DEF Admin, BeforeDelete, SetPassword, CreateUser, Event
    <3>3. CASE r = s /\ (Progress(s) \/ Failure(s))
      BY <3>3, StepShortens
    <3> QED
      BY <2>3, <3>1, <3>2, <3>3
  <2> QED
    BY <2>1, <2>2, <2>3 DEF Next
<1> QED
  BY <1>1, <1>2, TypeCorrect, PTL DEF Spec

=============================================================================
