----------------------------- MODULE TokenStore -----------------------------
(***************************************************************************)
(* SpamTrainer.report (mailwatch/email/filters/spam_detect.py): load the    *)
(* whole user_tokens.json, count the words of one more message for the      *)
(* account, as spam or as ham, write user_tokens.json.tmp and rename it     *)
(* over the old file.  The IDLE callback of an account's Junk folder and    *)
(* the training loop call it under the account's lock (watcher.py), for     *)
(* several accounts at once; the file is one for all accounts, and has no   *)
(* lock of its own.                                                        *)
(*                                                                         *)
(* A file is a name for an inode: a writer that has opened user_tokens.     *)
(* json.tmp goes on writing to the inode after another renamed it.         *)
(***************************************************************************)
EXTENDS WordCounts

CONSTANTS
  Accounts,     \* configured accounts
  Workers,      \* threads that train
  AccountOf,    \* [Workers -> Accounts]
  Inodes,       \* inodes the file system has for the two names
  MaxReports,   \* bound: reports begun per account
  NoOne,        \* the holder of a free lock
  NoFile,       \* a name that does not exist
  NoLesson,     \* of a worker without a report
  Torn          \* contents json.load fails on: empty, cut off or overlaid

ASSUME TokenStoreAssumption ==
  /\ AccountOf \in [Workers -> Accounts]
  /\ MaxReports \in Nat
  /\ NoOne \notin Workers
  /\ NoFile \notin Inodes
  /\ NoLesson \notin Lessons
  /\ Torn \notin [Accounts -> Counts]

VARIABLES
  content,    \* [Inodes -> what is written there]
  path, tmp,  \* inodes of user_tokens.json and user_tokens.json.tmp
  lock,       \* AccountLock: [Accounts -> holder]
  pc, fd,     \* per worker: control point, inode of its open file
  lesson,     \* per worker: the message it reports
  data,       \* per worker: all_data
  mixed,      \* workers whose inode another wrote since they opened it
  begun,      \* for MaxReports: reports begun per account
  done        \* history: what the reports that renamed their file taught

vars == <<content, path, tmp, lock, pc, fd, lesson, data, mixed, begun, done>>

(* user_tokens.json, whole.                                                *)
Tokens == [Accounts -> Counts]
Empty == [a \in Accounts |-> Untaught]
Point == {"idle", "load", "open", "write", "rename"}

Init ==
  /\ content = [i \in Inodes |-> Torn]
  /\ path = NoFile /\ tmp = NoFile
  /\ lock = [a \in Accounts |-> NoOne]
  /\ pc = [w \in Workers |-> "idle"]
  /\ fd = [w \in Workers |-> NoFile]
  /\ lesson = [w \in Workers |-> NoLesson]
  /\ data = [w \in Workers |-> Empty]
  /\ mixed = {}
  /\ begun = [a \in Accounts |-> 0]
  /\ done = Empty

-----------------------------------------------------------------------------
Goto(w, point) == pc' = [pc EXCEPT ![w] = point]

(* Mutant of Return: the file is not closed.                               *)
ReturnOpen(w) ==
  /\ Goto(w, "idle")
  /\ lock' = [lock EXCEPT ![AccountOf[w]] = NoOne]
  /\ lesson' = [lesson EXCEPT ![w] = NoLesson]
  /\ data' = [data EXCEPT ![w] = Empty]
  /\ UNCHANGED <<fd, mixed>>

(* report returns or raises, and the scan ends: file closed, account free.  *)
Return(w) ==
  /\ Goto(w, "idle")
  /\ lock' = [lock EXCEPT ![AccountOf[w]] = NoOne]
  /\ lesson' = [lesson EXCEPT ![w] = NoLesson]
  /\ data' = [data EXCEPT ![w] = Empty]
  /\ fd' = [fd EXCEPT ![w] = NoFile]
  /\ mixed' = mixed \ {w}

(* Mutant of Begin: the account is not locked.                             *)
BeginUnlocked(w, l) ==
  /\ pc[w] = "idle"
  /\ begun[AccountOf[w]] < MaxReports
  /\ begun' = [begun EXCEPT ![AccountOf[w]] = @ + 1]
  /\ lesson' = [lesson EXCEPT ![w] = l]
  /\ Goto(w, "load")
  /\ UNCHANGED <<content, path, tmp, lock, fd, data, mixed, done>>

(* A scan of the account reaches trainer.report: a message new in Junk, or  *)
(* one that left it.                                                       *)
Begin(w, l) ==
  /\ pc[w] = "idle"
  /\ begun[AccountOf[w]] < MaxReports
  /\ lock[AccountOf[w]] = NoOne
  /\ lock' = [lock EXCEPT ![AccountOf[w]] = w]
  /\ begun' = [begun EXCEPT ![AccountOf[w]] = @ + 1]
  /\ lesson' = [lesson EXCEPT ![w] = l]
  /\ Goto(w, "load")
  /\ UNCHANGED <<content, path, tmp, fd, data, mixed, done>>

(* _load_user_tokens: {} if there is no file, and also if it is torn.      *)
Loaded == IF path = NoFile \/ content[path] = Torn THEN Empty ELSE content[path]

Load(w) ==
  /\ pc[w] = "load"
  /\ data' = [data EXCEPT ![w] = [Loaded EXCEPT ![AccountOf[w]] = Learn(@, lesson[w])]]
  /\ Goto(w, "open")
  /\ UNCHANGED <<content, path, tmp, lock, fd, lesson, mixed, begun, done>>

(* Mutant of OpenTmp: the file itself is opened for writing.               *)
OpenInPlace(w) ==
  /\ pc[w] = "open"
  /\ \E i \in Inodes :
       /\ path = NoFile \/ i = path
       /\ fd' = [fd EXCEPT ![w] = i]
       /\ content' = [content EXCEPT ![i] = Torn]
       /\ tmp' = i
  /\ Goto(w, "write")
  /\ UNCHANGED <<path, lock, lesson, data, mixed, begun, done>>

(* open(tmp, "w") truncates the inode, which another may be writing, or     *)
(* takes a new one.                                                        *)
OpenTmp(w) ==
  /\ pc[w] = "open"
  /\ \E i \in Inodes :
       /\ IF tmp = NoFile THEN i # path /\ \A v \in Workers : fd[v] # i ELSE i = tmp
       /\ tmp' = i
       /\ fd' = [fd EXCEPT ![w] = i]
       /\ content' = [content EXCEPT ![i] = Torn]
  /\ Goto(w, "write")
  /\ UNCHANGED <<path, lock, lesson, data, mixed, begun, done>>

(* json.dump and close: from offset 0 of the inode, over what another wrote *)
(* there in the meantime, whose longer text leaves a tail.                 *)
Write(w) ==
  /\ pc[w] = "write"
  /\ \E text \in {data[w]} \cup (IF w \in mixed THEN {Torn} ELSE {}) :
       content' = [content EXCEPT ![fd[w]] = text]
  /\ mixed' = mixed \cup {v \in Workers \ {w} : pc[v] = "write" /\ fd[v] = fd[w]}
  /\ Goto(w, "rename")
  /\ UNCHANGED <<path, tmp, lock, fd, lesson, data, begun, done>>

(* tmp.replace(path): whatever inode has the name by now.  The name is gone  *)
(* if another renamed it, and FileNotFoundError ends the scan.             *)
Rename(w) ==
  /\ pc[w] = "rename"
  /\ IF tmp = NoFile
       THEN UNCHANGED <<path, done>>
       ELSE path' = tmp /\ done' = [done EXCEPT ![AccountOf[w]] = Learn(@, lesson[w])]
  /\ tmp' = NoFile
  /\ Return(w)
  /\ UNCHANGED <<content, begun>>

(* open or json.dump raises, on a full disk say: the .tmp stays behind.     *)
WriteFails(w) ==
  /\ pc[w] \in {"open", "write"}
  /\ Return(w)
  /\ UNCHANGED <<content, path, tmp, begun, done>>

(* The process is killed and started again; files stay as they are.        *)
Crash ==
  /\ pc' = [w \in Workers |-> "idle"]
  /\ lock' = [a \in Accounts |-> NoOne]
  /\ fd' = [w \in Workers |-> NoFile]
  /\ lesson' = [w \in Workers |-> NoLesson]
  /\ data' = [w \in Workers |-> Empty]
  /\ mixed' = {}
  /\ UNCHANGED <<content, path, tmp, begun, done>>

Report(w) ==
  \/ \E l \in Lessons : Begin(w, l)
  \/ Load(w) \/ OpenTmp(w) \/ Write(w) \/ Rename(w) \/ WriteFails(w)

Next == Crash \/ \E w \in Workers : Report(w)

Spec == Init /\ [][Next]_vars

-----------------------------------------------------------------------------
(* Properties.                                                             *)

(* What each variable holds: an open file belongs to a report that writes,  *)
(* and no word has been counted more often than reports were begun.        *)
TypeOK ==
  /\ content \in [Inodes -> Tokens \cup {Torn}]
  /\ path \in Inodes \cup {NoFile} /\ tmp \in Inodes \cup {NoFile}
  /\ lock \in [Accounts -> Workers \cup {NoOne}]
  /\ pc \in [Workers -> Point]
  /\ fd \in [Workers -> Inodes \cup {NoFile}]
  /\ \A w \in Workers : fd[w] # NoFile <=> pc[w] \in {"write", "rename"}
  /\ lesson \in [Workers -> Lessons \cup {NoLesson}]
  /\ \A w \in Workers : lesson[w] = NoLesson <=> pc[w] = "idle"
  /\ data \in [Workers -> Tokens]
  /\ mixed \subseteq Workers
  /\ begun \in [Accounts -> 0..MaxReports] /\ done \in Tokens
  /\ \A a \in Accounts : Within(done[a], begun[a])

(* "Atomically write per-user token data": whoever opens user_tokens.json,  *)
(* at any moment, finds a whole file.  A torn one loads as {} and the next  *)
(* report replaces everything learned by the words of one message.         *)
FileIsWhole == path # NoFile => content[path] # Torn

(* The words of every report that returned are counted in the file, as the  *)
(* user labelled it, and nothing else is.                                  *)
NothingForgotten ==
  IF path = NoFile THEN done = Empty ELSE content[path] = done

(* Whoever loads the file, and whenever, finds what it was before or that   *)
(* and all the words of one more message of one account, of a report under  *)
(* way that no reader has seen yet: writing is never seen half done,        *)
(* nothing learned is lost or counted twice, and a crash or a failed write  *)
(* changes nothing.                                                        *)
Shared == INSTANCE AtomicReports WITH reporting <- lesson, counted <- Loaded

ImplementsAtomicReports == Shared!Spec

=============================================================================
