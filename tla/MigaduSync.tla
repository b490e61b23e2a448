----------------------------- MODULE MigaduSync -----------------------------
(***************************************************************************)
(* nc-migadu-password-sync: a listener of Nextcloud's user events carries   *)
(* password changes and removals of accounts to the mail host's HTTP API,   *)
(* inside the web request that makes the change.  Every call is tried three *)
(* times; curl gives up after ten seconds, and what it gave up on may still *)
(* reach the host, after the next call even.  An error never breaks the     *)
(* change itself.                                                          *)
(***************************************************************************)
EXTENDS Naturals

CONSTANTS
  Users, Mailboxes, Passwords,
  Requests,         \* web requests at work at the same time
  Excluded,         \* CONFIG_EXCLUDE
  DeleteMailboxes,  \* CONFIG_DELETE
  MaxAttempts,      \* MAX_ATTEMPTS: 3
  MaxEvents,        \* bound: user events
  MaxFaults,        \* bound: failures
  NoBox,            \* an address that is missing or of another domain
  Malformed,        \* an address without a local part
  Absent            \* the mailbox does not exist

Addresses == Mailboxes \cup {NoBox, Malformed}

ASSUME MigaduAssumption ==
  /\ Users # {} /\ Passwords # {}
  /\ Excluded \subseteq Users
  /\ DeleteMailboxes \in BOOLEAN
  /\ MaxAttempts \in Nat \ {0}
  /\ MaxEvents \in Nat /\ MaxFaults \in Nat
  /\ NoBox \notin Mailboxes /\ Malformed \notin Mailboxes \cup {NoBox}
  /\ Absent \notin Passwords

VARIABLES
  exists,     \* Nextcloud's users
  address,    \* [Users -> Addresses]
  password,   \* [Users -> Passwords]: the last one set
  server,     \* the mail host: [Mailboxes -> Passwords, or Absent]
  late,       \* calls that curl gave up on and the host has not seen yet
  pc, attempt,
  task,       \* per request: whose mailbox, which, its new password
  alone,      \* history: requests with no other and no late call beside them
  misled,     \* history: requests whose DELETE got a 500 and deleted nothing
  removed,    \* history: users removed from Nextcloud
  events, faults

nextcloud == <<exists, address, password, removed>>
history == <<alone, misled>>
vars == <<nextcloud, server, late, pc, attempt, task, history, events, faults>>

Point == {"idle", "captured", "get", "post", "put", "delete", "ok", "failed"}
Calling == {"get", "post", "put", "delete"}
Task == [user: Users, box: Addresses, password: Passwords]
Call == [method: Calling, task: Task]

Init ==
  /\ exists \in SUBSET Users
  /\ address \in [Users -> Addresses]
  /\ password \in [Users -> Passwords]
  /\ server \in [Mailboxes -> Passwords \cup {Absent}]
  /\ late = {}
  /\ pc = [r \in Requests |-> "idle"]
  /\ attempt = [r \in Requests |-> 1]
  /\ task = [r \in Requests |-> CHOOSE t \in Task : TRUE]
  /\ alone = {} /\ misled = {} /\ removed = {}
  /\ events = 0 /\ faults = 0

-----------------------------------------------------------------------------
Goto(r, point) == pc' = [pc EXCEPT ![r] = point] /\ attempt' = [attempt EXCEPT ![r] = 1]
Fault == faults < MaxFaults /\ faults' = faults + 1

(* resolveMailbox.                                                         *)
Resolve(u, adr) == IF u \in Excluded THEN NoBox ELSE adr

(* A web request makes a change whose event comes to the listener.         *)
Event(r) ==
  /\ pc[r] = "idle"
  /\ events < MaxEvents /\ events' = events + 1
  /\ alone' = IF late = {} /\ \A s \in Requests : pc[s] = "idle" THEN {r} ELSE {}
  /\ misled' = misled \ {r}
  /\ UNCHANGED <<server, late, faults>>

(* Mutant of Sync: an address without local part is looked up.             *)
SyncMalformed(r, u, box, p) ==
  /\ task' = [task EXCEPT ![r] = [user |-> u, box |-> box, password |-> p]]
  /\ Goto(r, IF box = NoBox THEN "idle" ELSE "get")

(* syncPassword: nothing to do, a SyncException, or the lookup.            *)
Sync(r, u, box, p) ==
  /\ task' = [task EXCEPT ![r] = [user |-> u, box |-> box, password |-> p]]
  /\ Goto(r, IF box = NoBox THEN "idle" ELSE IF box = Malformed THEN "failed" ELSE "get")

SetPassword(r, u, p) ==
  /\ u \in exists
  /\ Event(r)
  /\ password' = [password EXCEPT ![u] = p]
  /\ Sync(r, u, Resolve(u, address[u]), p)
  /\ UNCHANGED <<exists, address, removed>>

CreateUser(r, u, p, adr) ==
  /\ u \notin exists
  /\ Event(r)
  /\ exists' = exists \cup {u}
  /\ address' = [address EXCEPT ![u] = adr]
  /\ password' = [password EXCEPT ![u] = p]
  /\ Sync(r, u, Resolve(u, adr), p)
  /\ UNCHANGED removed

(* The listener does not hear of a new address.                            *)
SetAddress(u, adr) ==
  /\ u \in exists /\ adr # address[u]
  /\ events < MaxEvents /\ events' = events + 1
  /\ address' = [address EXCEPT ![u] = adr]
  /\ UNCHANGED <<exists, password, removed, server, late, pc, attempt, task, history, faults>>

(* Mutant of BeforeDelete: the mailbox is deleted before the user is.      *)
DeleteAtOnce(r, u) ==
  /\ u \in exists
  /\ Event(r)
  /\ \E box \in {Resolve(u, address[u])} :
       /\ task' = [task EXCEPT ![r] = [@ EXCEPT !.user = u, !.box = box]]
       /\ Goto(r, IF box \in Mailboxes THEN "delete" ELSE "captured")
  /\ UNCHANGED nextcloud

(* BeforeUserDeletedEvent: the address is gone after the removal.          *)
BeforeDelete(r, u) ==
  /\ u \in exists
  /\ Event(r)
  /\ task' = [task EXCEPT ![r] = [@ EXCEPT !.user = u, !.box = Resolve(u, address[u])]]
  /\ Goto(r, "captured")
  /\ UNCHANGED nextcloud

(* UserDeletedEvent, of the same request.                                  *)
UserDeleted(r) ==
  /\ pc[r] = "captured" /\ task[r].user \in exists
  /\ exists' = exists \ {task[r].user}
  /\ removed' = removed \cup {task[r].user}
  /\ Goto(r, IF task[r].box \in Mailboxes /\ DeleteMailboxes THEN "delete" ELSE "idle")
  /\ UNCHANGED <<address, password, server, late, task, history, events, faults>>

(* The removal is refused, or another request has removed the user.        *)
DeletionAborted(r) ==
  /\ pc[r] = "captured"
  /\ Goto(r, "idle")
  /\ UNCHANGED <<nextcloud, server, late, task, history, events, faults>>

-----------------------------------------------------------------------------
(* requestWithRetry.                                                       *)

CallOf(r) == [method |-> pc[r], task |-> task[r]]

(* What a call does at the host.                                           *)
Does(c) ==
  LET box == c.task.box
      result == IF c.method = "delete" THEN Absent
                ELSE IF c.method = "get" \/ (c.method = "post") # (server[box] = Absent)
                THEN server[box] ELSE c.task.password
  IN  server' = [server EXCEPT ![box] = result]

(* Is the reply a success?  A GET finds out, a POST creates, a PUT changes  *)
(* what there is; for a DELETE all of 200, 204, 404 and 500 are.            *)
Accepted(c) ==
  \/ c.method \in {"get", "delete"}
  \/ (c.method = "post") = (server[c.task.box] = Absent)

(* Mutant of Retry: no limit.                                              *)
RetryForever(r) ==
  /\ attempt' = [attempt EXCEPT ![r] = IF @ < MaxAttempts THEN @ + 1 ELSE @]
  /\ UNCHANGED pc

Retry(r) ==
  IF attempt[r] < MaxAttempts
    THEN attempt' = [attempt EXCEPT ![r] = @ + 1] /\ UNCHANGED pc
    ELSE Goto(r, "failed")

(* The host answers.                                                       *)
Served(r) ==
  /\ pc[r] \in Calling
  /\ Does(CallOf(r))
  /\ IF Accepted(CallOf(r))
       THEN Goto(r, IF pc[r] # "get" THEN "ok"
                    ELSE IF server[task[r].box] = Absent THEN "post" ELSE "put")
       ELSE Retry(r)
  /\ UNCHANGED <<nextcloud, late, task, history, events, faults>>

(* An error of the host, which has done nothing.  The 500 among them is a   *)
(* success to a DELETE (DELETE_SUCCESS_CODES) and is not tried again.      *)
Refused(r) ==
  /\ pc[r] \in Calling
  /\ Fault
  /\ \/ Retry(r) /\ UNCHANGED misled
     \/ pc[r] = "delete" /\ Goto(r, "ok") /\ misled' = misled \cup {r}
  /\ UNCHANGED <<nextcloud, server, late, task, alone, events>>

(* Mutant of TimesOut: success is a code below 400.                        *)
TimesOutQuietly(r) ==
  /\ pc[r] \in Calling \ {"get"}
  /\ Fault
  /\ \/ late' = late \cup {CallOf(r)} /\ UNCHANGED server
     \/ Does(CallOf(r)) /\ UNCHANGED late
  /\ Goto(r, "ok")
  /\ UNCHANGED <<nextcloud, task, history, events>>

(* Code 0: curl gives up, and the call or its answer is on its way.         *)
TimesOut(r) ==
  /\ pc[r] \in Calling
  /\ Fault
  /\ \/ late' = late \cup {CallOf(r)} /\ UNCHANGED server
     \/ Does(CallOf(r)) /\ UNCHANGED late
  /\ Retry(r)
  /\ UNCHANGED <<nextcloud, task, history, events>>

(* No credentials, no curl handle, a password that is no UTF-8.            *)
Raises(r) ==
  /\ pc[r] \in Calling
  /\ Fault
  /\ Goto(r, "failed")
  /\ UNCHANGED <<nextcloud, server, late, task, history, events>>

Arrives(c) ==
  /\ Does(c)
  /\ late' = late \ {c}
  /\ UNCHANGED <<nextcloud, pc, attempt, task, history, events, faults>>

Vanishes(c) ==
  /\ late' = late \ {c}
  /\ UNCHANGED <<nextcloud, server, pc, attempt, task, history, events, faults>>

(* Logged, whether it succeeded or not, and the web request goes on.       *)
Return(r) ==
  /\ pc[r] \in {"ok", "failed"}
  /\ Goto(r, "idle")
  /\ UNCHANGED <<nextcloud, server, late, task, history, events, faults>>

-----------------------------------------------------------------------------
Admin(r) ==
  \E u \in Users :
    \/ BeforeDelete(r, u)
    \/ \E p \in Passwords :
         SetPassword(r, u, p) \/ \E adr \in Addresses : CreateUser(r, u, p, adr)

Progress(r) == UserDeleted(r) \/ DeletionAborted(r) \/ Served(r) \/ Return(r)
Failure(r) == Refused(r) \/ TimesOut(r) \/ Raises(r)

Next ==
  \/ \E u \in Users, adr \in Addresses : SetAddress(u, adr)
  \/ \E r \in Requests : Admin(r) \/ Progress(r) \/ Failure(r)
  \/ \E c \in late : Arrives(c) \/ Vanishes(c)

Spec == Init /\ [][Next]_vars

(* The host answers, or curl's time is over: a call never hangs.           *)
FairSpec == Spec /\ \A r \in Requests : WF_vars(Progress(r))

-----------------------------------------------------------------------------
(* Properties.                                                             *)

(* A request that calls has a mailbox to call about, and so has a late call. *)
TypeOK ==
  /\ exists \subseteq Users /\ removed \subseteq Users
  /\ address \in [Users -> Addresses]
  /\ password \in [Users -> Passwords]
  /\ server \in [Mailboxes -> Passwords \cup {Absent}]
  /\ late \subseteq Call /\ \A c \in late : c.task.box \in Mailboxes
  /\ pc \in [Requests -> Point]
  /\ attempt \in [Requests -> 1..MaxAttempts]
  /\ task \in [Requests -> Task]
  /\ \A r \in Requests : pc[r] \in Calling \cup {"ok"} => task[r].box \in Mailboxes
  /\ alone \subseteq Requests /\ misled \subseteq Requests
  /\ events \in 0..MaxEvents /\ faults \in 0..MaxFaults

(* "The NC password is the mailbox password": a request that nothing else   *)
(* overlapped and that reports success has left the mailbox with the user's *)
(* password, or gone when it removed the user, through lost answers,        *)
(* repeated calls and calls that arrive late.  One success is empty: that   *)
(* of a DELETE which the host answered with a real error 500.              *)
InStep ==
  \A r \in alone :
    pc[r] = "ok" =>
      IF task[r].user \in exists
        THEN server[task[r].box] = password[task[r].user]
        ELSE server[task[r].box] = Absent \/ r \in misled

(* No call deletes a mailbox whose user Nextcloud has not removed: the      *)
(* removal may still be refused.                                           *)
DeleteNeedsRemoval ==
  /\ \A r \in Requests : pc[r] = "delete" => task[r].user \in removed
  /\ \A c \in late : c.method = "delete" => c.task.user \in removed

(* Whatever the host does, the change of a user comes to its end.          *)
EveryRequestReturns == \A r \in Requests : pc[r] # "idle" ~> pc[r] = "idle"

=============================================================================
