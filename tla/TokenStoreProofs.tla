-------------------------- MODULE TokenStoreProofs --------------------------
(* What AccountLock gives the token file as long as all training is for one *)
(* account: any number of threads, reports and crashes.                     *)
EXTENDS TokenStore, TLAPS

(* Every thread trains the same account, hence takes the same lock.         *)
OneLock == \A v, w \in Workers : AccountOf[v] = AccountOf[w]

Busy(w) == pc[w] # "idle"

Below(counts, n) == \A x \in Words, k \in Labels : counts[x][k] < n

(* The report under way holds the lock and has not been counted.            *)
Locked ==
  \A w \in Workers : Busy(w) => /\ lock[AccountOf[w]] = w
                                /\ Below(done[AccountOf[w]], begun[AccountOf[w]])

(* It has in memory what the file holds and its own message, ...            *)
Fresh ==
  \A w \in Workers :
    pc[w] \in {"open", "write", "rename"} =>
      data[w] = [done EXCEPT ![AccountOf[w]] = Learn(@, lesson[w])]

(* ... writes the inode that is named .tmp, and has written it all when it  *)
(* renames it.                                                              *)
Staged ==
  \A w \in Workers :
    /\ pc[w] \in {"write", "rename"} => tmp = fd[w]
    /\ pc[w] = "rename" => content[tmp] = data[w]

Apart == path # NoFile => path # tmp

IInv ==
  /\ TypeOK /\ Locked /\ Fresh /\ Staged /\ Apart
  /\ mixed = {}
  /\ NothingForgotten

(* Counting a message moves each count by one at most.                      *)
LEMMA LearnTyped ==
  ASSUME NEW c \in Counts, NEW l \in Lessons
  PROVE  Learn(c, l) \in Counts
BY LessonsAssumption DEF Learn, Counts, Lesson

LEMMA LearnWithin ==
  ASSUME NEW c \in Counts, NEW l \in Lessons, NEW n \in Nat, Below(c, n)
  PROVE  Within(Learn(c, l), n)
<1> SUFFICES ASSUME NEW x \in Words, NEW k \in Labels
             PROVE  Learn(c, l)[x][k] <= n
  BY DEF Within
<1>1. c[x][k] \in Nat /\ c[x][k] < n
  BY DEF Counts, Below
<1>2. Learn(c, l)[x][k] \in {c[x][k], c[x][k] + 1}
  BY DEF Learn
<1> QED
  BY <1>1, <1>2

LEMMA WithinBelow ==
  ASSUME NEW c \in Counts, NEW m \in Nat, NEW n \in Nat, Within(c, m), m < n
  PROVE  Below(c, n) /\ Within(c, n)
BY DEF Counts, Within, Below

LEMMA BelowWithin ==
  ASSUME NEW c \in Counts, NEW n \in Nat, Below(c, n)
  PROVE  Within(c, n)
BY DEF Counts, Within, Below

LEMMA UntaughtTyped ==
  /\ Untaught \in Counts
  /\ \A n \in Nat : Within(Untaught, n)
BY DEF Untaught, Counts, Within

LEMMA UntaughtBelow ==
  ASSUME NEW c \in Counts, NEW n \in Nat, Below(c, n)
  PROVE  Below(Untaught, n)
BY DEF Untaught, Counts, Below

(* No two reports are under way at once.                                    *)
LEMMA Alone ==
  ASSUME OneLock, Locked,
         NEW v \in Workers, NEW w \in Workers, Busy(v), Busy(w)
  PROVE  v = w
BY DEF OneLock, Locked

LEMMA Initially ==
  ASSUME Init
  PROVE  IInv
BY TokenStoreAssumption, UntaughtTyped
   DEF Init, IInv, TypeOK, Locked, Fresh, Staged, Apart, NothingForgotten,
       Tokens, Empty, Point, Busy

(* Taking the lock makes the report the only one.                           *)
LEMMA BeginKeeps ==
  ASSUME OneLock, IInv, NEW w \in Workers, NEW l \in Lessons, Begin(w, l)
  PROVE  IInv'
<1> USE TokenStoreAssumption
<1>1. \A v \in Workers : ~ Busy(v)
  BY DEF IInv, Locked, OneLock, Begin
<1>2. AccountOf[w] \in Accounts /\ begun' = [begun EXCEPT ![AccountOf[w]] = @ + 1]
  BY DEF Begin
<1>3. begun[AccountOf[w]] \in 0..MaxReports /\ begun[AccountOf[w]] + 1 \in 0..MaxReports
  BY <1>2 DEF IInv, TypeOK, Begin
<1>4. begun' \in [Accounts -> 0..MaxReports]
  BY <1>2, <1>3 DEF IInv, TypeOK
<1>5. done \in [Accounts -> Counts] /\ \A a \in Accounts : Within(done[a], begun[a])
  BY DEF IInv, TypeOK, Tokens
<1>6. Below(done[AccountOf[w]], begun'[AccountOf[w]]) /\ \A a \in Accounts : Within(done[a], begun'[a])
  <2>1. begun'[AccountOf[w]] = begun[AccountOf[w]] + 1
    BY <1>2 DEF IInv, TypeOK
  <2>2. Below(done[AccountOf[w]], begun'[AccountOf[w]]) /\ Within(done[AccountOf[w]], begun'[AccountOf[w]])
    BY <1>2, <1>3, <1>5, <2>1, WithinBelow
  <2>3. \A a \in Accounts : a # AccountOf[w] => begun'[a] = begun[a]
    BY <1>2 DEF IInv, TypeOK
  <2> QED
    BY <1>5, <2>2, <2>3
<1>7. TypeOK'
  BY <1>4, <1>6 DEF IInv, TypeOK, Begin, Goto, Point
<1>8. Locked' /\ Fresh' /\ Staged' /\ Apart' /\ (mixed = {})'
  <2>1. \A v \in Workers : Busy(v)' => v = w
    BY <1>1 DEF Begin, Goto, Busy, IInv, TypeOK
  <2>2. Locked'
    BY <1>6, <2>1 DEF Locked, Begin, IInv, TypeOK
  <2>3. \A v \in Workers : pc'[v] \in {"idle", "load"}
    BY <1>1 DEF Begin, Goto, Busy, IInv, TypeOK
  <2>. QED  BY <2>2, <2>3 DEF Fresh, Staged, Apart, Begin, IInv
<1>9. NothingForgotten'
  BY DEF IInv, NothingForgotten, Begin
<1>. QED  BY <1>7, <1>8, <1>9 DEF IInv

(* What is loaded is what is done: the file is whole, or there is none yet. *)
LEMMA LoadKeeps ==
  ASSUME OneLock, IInv, NEW w \in Workers, Load(w)
  PROVE  IInv'
<1> USE TokenStoreAssumption
<1>1. Busy(w)
  BY DEF Load, Busy
<1>2. \A v \in Workers \ {w} : ~ Busy(v)
  BY <1>1, Alone DEF IInv
<1>3. Loaded = done
  BY DEF IInv, TypeOK, NothingForgotten, Loaded, Tokens, Empty
<1>4. data'[w] = [done EXCEPT ![AccountOf[w]] = Learn(@, lesson[w])]
  BY <1>3 DEF Load, IInv, TypeOK
<1>5. lesson[w] \in Lessons
  BY <1>1 DEF IInv, TypeOK, Busy
<1>6. data'[w] \in Tokens
  BY <1>4, <1>5, LearnTyped DEF IInv, TypeOK, Tokens
<1>7. TypeOK'
  BY <1>6 DEF IInv, TypeOK, Load, Goto, Point
<1>8. Locked' /\ Fresh' /\ Staged' /\ Apart' /\ (mixed = {})'
  BY <1>1, <1>2, <1>4
     DEF IInv, TypeOK, Locked, Fresh, Staged, Apart, Load, Goto, Busy, Point
<1>9. NothingForgotten'
  BY DEF IInv, NothingForgotten, Load
<1>. QED  BY <1>7, <1>8, <1>9 DEF IInv

(* The inode truncated is never the one user_tokens.json names.             *)
LEMMA OpenKeeps ==
  ASSUME OneLock, IInv, NEW w \in Workers, OpenTmp(w)
  PROVE  IInv'
<1> USE TokenStoreAssumption
<1>1. Busy(w)
  BY DEF OpenTmp, Busy
<1>2. \A v \in Workers \ {w} : ~ Busy(v)
  BY <1>1, Alone DEF IInv
<1>3. PICK i \in Inodes :
        /\ i # path
        /\ tmp' = i
        /\ fd' = [fd EXCEPT ![w] = i]
        /\ content' = [content EXCEPT ![i] = Torn]
  BY DEF OpenTmp, IInv, Apart
<1>4. TypeOK'
  BY <1>3 DEF IInv, TypeOK, OpenTmp, Goto, Point
<1>5. Locked' /\ Fresh' /\ Staged' /\ Apart' /\ (mixed = {})'
  BY <1>1, <1>2, <1>3
     DEF IInv, TypeOK, Locked, Fresh, Staged, Apart, OpenTmp, Goto, Busy, Point
<1>6. NothingForgotten'
  BY <1>3 DEF IInv, TypeOK, NothingForgotten, OpenTmp
<1>. QED  BY <1>4, <1>5, <1>6 DEF IInv

(* Nobody else has the inode open, so what is written is what is read.      *)
LEMMA WriteKeeps ==
  ASSUME OneLock, IInv, NEW w \in Workers, Write(w)
  PROVE  IInv'
<1> USE TokenStoreAssumption
<1>1. Busy(w) /\ fd[w] = tmp /\ tmp \in Inodes /\ tmp # path
  BY DEF Write, Busy, IInv, TypeOK, Staged, Apart
<1>2. \A v \in Workers \ {w} : ~ Busy(v)
  BY <1>1, Alone DEF IInv
<1>3. content' = [content EXCEPT ![tmp] = data[w]]
  BY <1>1 DEF Write, IInv
<1>4. mixed' = {}
  BY <1>2 DEF Write, IInv, Busy
<1>5. TypeOK'
  BY <1>3, <1>4 DEF IInv, TypeOK, Write, Goto, Point
<1>6. Locked' /\ Fresh' /\ Staged' /\ Apart'
  BY <1>1, <1>2, <1>3
     DEF IInv, TypeOK, Locked, Fresh, Staged, Apart, Write, Goto, Busy, Point
<1>7. NothingForgotten'
  BY <1>1, <1>3 DEF IInv, TypeOK, NothingForgotten, Write
<1>. QED  BY <1>4, <1>5, <1>6, <1>7 DEF IInv

(* The file becomes what was done, with this report.                        *)
LEMMA RenameKeeps ==
  ASSUME OneLock, IInv, NEW w \in Workers, Rename(w)
  PROVE  IInv'
<1> USE TokenStoreAssumption
<1>1. Busy(w) /\ fd[w] = tmp /\ tmp \in Inodes /\ tmp # NoFile
  BY DEF Rename, Busy, IInv, TypeOK, Staged
<1>2. \A v \in Workers \ {w} : ~ Busy(v)
  BY <1>1, Alone DEF IInv
<1>3. /\ path' = tmp
      /\ done' = [done EXCEPT ![AccountOf[w]] = Learn(@, lesson[w])]
  BY <1>1 DEF Rename
<1>4. Below(done[AccountOf[w]], begun[AccountOf[w]]) /\ begun' = begun /\ lesson[w] \in Lessons
  BY <1>1 DEF IInv, TypeOK, Locked, Busy, Rename
<1>5. done' \in Tokens /\ \A a \in Accounts : Within(done'[a], begun'[a])
  <2>1. Learn(done[AccountOf[w]], lesson[w]) \in Counts
    BY <1>4, LearnTyped DEF IInv, TypeOK, Tokens
  <2>2. Within(Learn(done[AccountOf[w]], lesson[w]), begun[AccountOf[w]])
    BY <1>4, LearnWithin DEF IInv, TypeOK, Tokens
  <2> QED
    BY <1>3, <1>4, <2>1, <2>2 DEF IInv, TypeOK, Tokens
<1>6. TypeOK'
  BY <1>1, <1>3, <1>5, UntaughtTyped DEF IInv, TypeOK, Rename, Return, Goto, Point, Tokens, Empty
<1>7. Locked' /\ Fresh' /\ Staged' /\ Apart' /\ (mixed = {})'
  BY <1>1, <1>2, <1>3
     DEF IInv, TypeOK, Locked, Fresh, Staged, Apart, Rename, Return, Goto, Busy, Point
<1>8. NothingForgotten'
  <2>1. content[tmp] = data[w] /\ data[w] = [done EXCEPT ![AccountOf[w]] = Learn(@, lesson[w])]
    BY DEF IInv, Staged, Fresh, Rename
  <2>. QED  BY <1>1, <1>3, <2>1 DEF NothingForgotten, Rename
<1>. QED  BY <1>6, <1>7, <1>8 DEF IInv

LEMMA FailureKeeps ==
  ASSUME OneLock, IInv, NEW w \in Workers, WriteFails(w)
  PROVE  IInv'
<1> USE TokenStoreAssumption
<1>1. Busy(w)
  BY DEF WriteFails, Busy
<1>2. \A v \in Workers \ {w} : ~ Busy(v)
  BY <1>1, Alone DEF IInv
<1>3. TypeOK'
  BY UntaughtTyped DEF IInv, TypeOK, WriteFails, Return, Goto, Point, Tokens, Empty
<1>4. Locked' /\ Fresh' /\ Staged' /\ Apart' /\ (mixed = {})'
  BY <1>1, <1>2
     DEF IInv, TypeOK, Locked, Fresh, Staged, Apart, WriteFails, Return, Goto, Busy, Point
<1>5. NothingForgotten'
  BY DEF IInv, NothingForgotten, WriteFails
<1>. QED  BY <1>3, <1>4, <1>5 DEF IInv

LEMMA CrashKeeps ==
  ASSUME IInv, Crash
  PROVE  IInv'
BY TokenStoreAssumption, UntaughtTyped
   DEF IInv, TypeOK, Locked, Fresh, Staged, Apart, NothingForgotten, Crash, Busy, Point,
       Tokens, Empty

(* IInv is inductive when all threads train the same account.               *)
LEMMA Inductive ==
  ASSUME OneLock, IInv, [Next]_vars
  PROVE  IInv'
<1>1. CASE UNCHANGED vars
  BY <1>1 DEF vars, IInv, TypeOK, Locked, Fresh, Staged, Apart, NothingForgotten,
              Busy, Tokens, Empty
<1>2. CASE Crash
  BY <1>2, CrashKeeps
<1>3. ASSUME NEW w \in Workers, Report(w)
      PROVE  IInv'
  BY <1>3, BeginKeeps, LoadKeeps, OpenKeeps, WriteKeeps, RenameKeeps, FailureKeeps
     DEF Report
<1>. QED  BY <1>1, <1>2, <1>3 DEF Next

(* With one account the file always holds every report that returned and    *)
(* nothing else, through any failed write and any crash: no lost update,    *)
(* no torn file (_save_user_tokens, spam_detect.py:91).                     *)
THEOREM OneAccountForgetsNothing ==
  ASSUME OneLock
  PROVE  Spec => []NothingForgotten
<1>1. Init => IInv
  BY Initially
<1>2. IInv /\ [Next]_vars => IInv'
  BY Inductive
<1>3. IInv => NothingForgotten
  BY DEF IInv
<1>. QED  BY <1>1, <1>2, <1>3, PTL DEF Spec

(* With one account whoever opens user_tokens.json finds a whole file       *)
(* ("Atomically write", spam_detect.py:92).                                 *)
THEOREM OneAccountFileIsWhole ==
  ASSUME OneLock
  PROVE  Spec => []FileIsWhole
<1>1. Init => IInv
  BY Initially
<1>2. IInv /\ [Next]_vars => IInv'
  BY Inductive
<1>3. IInv => FileIsWhole
  BY TokenStoreAssumption DEF IInv, TypeOK, NothingForgotten, FileIsWhole, Tokens
<1>. QED  BY <1>1, <1>2, <1>3, PTL DEF Spec

(* What is loaded is what was done.                                        *)
LEMMA LoadedIsDone ==
  ASSUME IInv
  PROVE  Loaded = done
BY TokenStoreAssumption DEF IInv, TypeOK, NothingForgotten, Loaded, Tokens

(* A report is counted by its Rename, and given up when it fails or the    *)
(* process dies; its other steps no reader sees.                           *)
LEMMA AtomicStep ==
  ASSUME OneLock, IInv, [Next]_vars
  PROVE  [Shared!Next]_(Shared!seen)
<1>1. Loaded = done /\ Loaded' = done'
  <2>1. IInv'
    BY Inductive
  <2> QED
    BY <2>1, LoadedIsDone, TokenStoreAssumption
       DEF IInv, TypeOK, NothingForgotten, Loaded, Tokens
<1>2. /\ lesson \in [Workers -> Lessons \cup {NoLesson}] /\ NoLesson \notin Lessons
      /\ \A w \in Workers : lesson[w] = NoLesson <=> pc[w] = "idle"
  BY TokenStoreAssumption DEF IInv, TypeOK
<1>3. ASSUME NEW w \in Workers, NEW l \in Lessons, Begin(w, l)
      PROVE  Shared!Next
  BY <1>1, <1>2, <1>3 DEF Begin, Shared!Next, Shared!Ask
<1>4. ASSUME NEW w \in Workers, Load(w) \/ OpenTmp(w) \/ Write(w)
      PROVE  UNCHANGED Shared!seen
  BY <1>1, <1>4 DEF Load, OpenTmp, Write, Shared!seen
<1>5. ASSUME NEW w \in Workers, Rename(w) \/ WriteFails(w)
      PROVE  Shared!Next
  <2>1. lesson[w] # NoLesson /\ lesson' = [lesson EXCEPT ![w] = NoLesson]
    BY <1>2, <1>5 DEF Rename, WriteFails, Return
  <2>2. CASE done' = done
    <3>1. /\ {w} \in SUBSET Workers /\ {w} # {} /\ \A v \in {w} : lesson[v] # NoLesson
          /\ lesson' = [v \in Workers |-> IF v \in {w} THEN NoLesson ELSE lesson[v]]
      BY <1>2, <2>1
    <3>2. Shared!GiveUp({w})
      BY <1>1, <2>2, <3>1 DEF Shared!GiveUp
    <3> QED
      BY <3>1, <3>2 DEF Shared!Next
  <2>3. CASE done' # done
    <3>1. done' = [done EXCEPT ![AccountOf[w]] = Learn(@, lesson[w])]
      BY <1>5, <2>3 DEF Rename, WriteFails
    <3>2. Shared!Count(w)
      BY <1>1, <2>1, <3>1 DEF Shared!Count, Shared!Learn, Shared!Labels, Learn, Labels
    <3> QED
      BY <3>2 DEF Shared!Next
  <2> QED
    BY <2>2, <2>3
<1>6. CASE Crash
  <2> DEFINE lost == {w \in Workers : lesson[w] # NoLesson}
  <2>1. lesson' = [w \in Workers |-> NoLesson] /\ done' = done
    BY <1>6 DEF Crash
  <2>2. lesson' = [w \in Workers |-> IF w \in lost THEN NoLesson ELSE lesson[w]]
    BY <2>1
  <2>3. CASE lost = {}
    <3>1. lesson' = lesson
      BY <1>2, <2>1, <2>3
    <3> QED
      BY <1>1, <2>1, <3>1 DEF Shared!seen
  <2>4. CASE lost # {}
    <3>1. lost \in SUBSET Workers /\ \A w \in lost : lesson[w] # NoLesson
      OBVIOUS
    <3> HIDE DEF lost
    <3>2. Shared!GiveUp(lost)
      BY <1>1, <2>1, <2>2, <2>4, <3>1 DEF Shared!GiveUp
    <3> QED
      BY <3>1, <3>2 DEF Shared!Next
  <2> QED
    BY <2>3, <2>4
<1>7. CASE UNCHANGED vars
  BY <1>1, <1>7 DEF vars, Shared!seen
<1> QED
  BY <1>3, <1>4, <1>5, <1>6, <1>7 DEF Next, Report

(* With one account training is atomic for every reader of the file, at     *)
(* whatever step of a report it reads or the daemon dies, and no report is  *)
(* counted twice ("Atomically write", spam_detect.py:92).                   *)
THEOREM OneAccountReportsAreAtomic ==
  ASSUME OneLock
  PROVE  Spec => ImplementsAtomicReports
<1>1. Init => IInv /\ Shared!Init
  BY Initially DEF Init, Loaded, Empty, Untaught, Labels, Shared!Init, Shared!Untaught, Shared!Labels
<1>2. IInv /\ [Next]_vars => IInv'
  BY Inductive
<1>3. IInv /\ [Next]_vars => [Shared!Next]_(Shared!seen)
  BY AtomicStep
<1> QED
  BY <1>1, <1>2, <1>3, PTL DEF Spec, ImplementsAtomicReports, Shared!Spec

-----------------------------------------------------------------------------
(* The types need no such assumption.  What a file or a report in memory    *)
(* counts for an account is covered by the reports begun for it, with one   *)
(* to spare as long as a report has not loaded the file.                    *)
Covered(t, b, p) ==
  \A a \in Accounts :
    /\ Within(t[a], b[a])
    /\ \A w \in Workers : p[w] = "load" /\ AccountOf[w] = a => Below(t[a], b[a])

TypeInv ==
  /\ TypeOK /\ Locked
  /\ \A i \in Inodes : content[i] # Torn => Covered(content[i], begun, pc)
  /\ \A w \in Workers : pc[w] \in {"open", "write", "rename"} => Covered(data[w], begun, pc)

(* A step that starts no report and leaves done alone uncovers nothing.     *)
LEMMA StaysCovered ==
  ASSUME NEW t, NEW b, NEW p, NEW q, Covered(t, b, p),
         \A w \in Workers : q[w] = "load" => p[w] = "load"
  PROVE  Covered(t, b, q)
BY DEF Covered

LEMMA TypesInitially ==
  ASSUME Init
  PROVE  TypeInv
BY TokenStoreAssumption, UntaughtTyped
   DEF Init, TypeInv, TypeOK, Locked, Covered, Tokens, Empty, Point, Busy

LEMMA BeginTypes ==
  ASSUME TypeInv, NEW w \in Workers, NEW l \in Lessons, Begin(w, l)
  PROVE  TypeInv'
<1> USE TokenStoreAssumption
<1> DEFINE a == AccountOf[w]
<1>1. /\ a \in Accounts /\ begun' = [begun EXCEPT ![a] = @ + 1]
      /\ pc' = [pc EXCEPT ![w] = "load"] /\ lock' = [lock EXCEPT ![a] = w]
      /\ lesson' = [lesson EXCEPT ![w] = l]
      /\ begun[a] < MaxReports /\ lock[a] = NoOne /\ pc[w] = "idle"
      /\ UNCHANGED <<content, path, tmp, fd, data, mixed, done>>
  BY DEF Begin, Goto
<1> HIDE DEF a
<1>2. begun \in [Accounts -> 0..MaxReports] /\ done \in [Accounts -> Counts]
  BY DEF TypeInv, TypeOK, Tokens
<1>3. begun[a] \in Nat /\ begun[a] + 1 \in 0..MaxReports
  BY <1>1, <1>2
<1>4. /\ begun' \in [Accounts -> 0..MaxReports] /\ begun'[a] = begun[a] + 1
      /\ \A b \in Accounts : b # a => begun'[b] = begun[b]
  BY <1>1, <1>2, <1>3
<1>5. \A b \in Accounts : Within(done[b], begun'[b])
  BY <1>1, <1>2, <1>3, <1>4, WithinBelow DEF TypeInv, TypeOK
<1>6. TypeOK'
  BY <1>1, <1>4, <1>5 DEF TypeInv, TypeOK, Point
<1>7. Locked'
  <2> SUFFICES ASSUME NEW v \in Workers, Busy(v)'
               PROVE  lock'[AccountOf[v]] = v /\ Below(done'[AccountOf[v]], begun'[AccountOf[v]])
    BY DEF Locked
  <2>1. AccountOf[v] \in Accounts
    OBVIOUS
  <2>2. CASE v = w
    <3>1. Below(done[a], begun'[a])
      BY <1>1, <1>2, <1>3, <1>4, WithinBelow DEF TypeInv, TypeOK
    <3> QED
      BY <1>1, <2>2, <3>1 DEF a, TypeInv, TypeOK
  <2>3. CASE v # w
    <3>1. Busy(v)
      BY <1>1, <2>3 DEF Busy, TypeInv, TypeOK
    <3>2. lock[AccountOf[v]] = v /\ Below(done[AccountOf[v]], begun[AccountOf[v]])
      BY <3>1 DEF TypeInv, Locked
    <3>3. AccountOf[v] # a
      BY <1>1, <3>2, TokenStoreAssumption
    <3> QED
      BY <1>1, <1>4, <2>1, <3>2, <3>3 DEF TypeInv, TypeOK
  <2> QED
    BY <2>2, <2>3
<1>8. ASSUME NEW t \in Tokens, Covered(t, begun, pc)
      PROVE  Covered(t, begun', pc')
  <2> SUFFICES ASSUME NEW b \in Accounts
               PROVE  /\ Within(t[b], begun'[b])
                      /\ \A v \in Workers : pc'[v] = "load" /\ AccountOf[v] = b => Below(t[b], begun'[b])
    BY DEF Covered
  <2>1. t[b] \in Counts /\ Within(t[b], begun[b])
    BY <1>8 DEF Covered, Tokens
  <2>2. CASE b = a
    <3>1. Below(t[b], begun'[b]) /\ Within(t[b], begun'[b])
      BY <1>3, <1>4, <2>1, <2>2, WithinBelow
    <3> QED
      BY <3>1
  <2>3. CASE b # a
    BY <1>1, <1>4, <1>8, <2>1, <2>3 DEF a, Covered, TypeInv, TypeOK
  <2> QED
    BY <2>2, <2>3
<1>9. ASSUME NEW v \in Workers, pc'[v] \in {"open", "write", "rename"}
      PROVE  Covered(data[v], begun, pc)
  BY <1>1, <1>9 DEF TypeInv, TypeOK
<1>10. ASSUME NEW i \in Inodes, content'[i] # Torn
       PROVE  Covered(content'[i], begun', pc')
  <2>1. content[i] \in Tokens /\ Covered(content[i], begun, pc)
    BY <1>1, <1>10 DEF TypeInv, TypeOK
  <2> QED
    BY <1>1, <1>8, <2>1
<1>11. ASSUME NEW v \in Workers, pc'[v] \in {"open", "write", "rename"}
       PROVE  Covered(data'[v], begun', pc')
  <2>1. data[v] \in Tokens /\ Covered(data[v], begun, pc)
    BY <1>9, <1>11 DEF TypeInv, TypeOK
  <2> QED
    BY <1>1, <1>8, <2>1
<1> QED
  BY <1>6, <1>7, <1>10, <1>11 DEF TypeInv

LEMMA LoadTypes ==
  ASSUME TypeInv, NEW w \in Workers, Load(w)
  PROVE  TypeInv'
<1> USE TokenStoreAssumption
<1> DEFINE a == AccountOf[w]
           mine == [Loaded EXCEPT ![a] = Learn(@, lesson[w])]
<1>1. /\ a \in Accounts /\ pc[w] = "load"
      /\ data' = [data EXCEPT ![w] = mine]
      /\ pc' = [pc EXCEPT ![w] = "open"]
      /\ UNCHANGED <<content, path, tmp, lock, fd, lesson, mixed, begun, done>>
  BY DEF Load, Goto
<1>2. /\ begun \in [Accounts -> 0..MaxReports] /\ done \in [Accounts -> Counts]
      /\ lesson[w] \in Lessons
  BY <1>1 DEF TypeInv, TypeOK, Tokens
<1>3. Loaded \in Tokens /\ Covered(Loaded, begun, pc)
  <2>1. CASE path = NoFile \/ content[path] = Torn
    <3>1. Loaded = Empty
      BY <2>1 DEF Loaded
    <3>2. Covered(Empty, begun, pc)
      <4>1. \A v \in Workers : pc[v] = "load" => Below(Untaught, begun[AccountOf[v]])
        BY <1>2, UntaughtBelow DEF TypeInv, Locked, Busy
      <4> QED
        BY <1>2, <4>1, UntaughtTyped DEF Covered, Empty
    <3> QED
      BY <3>1, <3>2, UntaughtTyped DEF Empty, Tokens
  <2>2. CASE ~ (path = NoFile \/ content[path] = Torn)
    BY <2>2 DEF Loaded, TypeInv, TypeOK
  <2> QED
    BY <2>1, <2>2
<1>4. /\ Learn(Loaded[a], lesson[w]) \in Counts
      /\ Within(Learn(Loaded[a], lesson[w]), begun[a])
  <2>1. Loaded[a] \in Counts /\ Below(Loaded[a], begun[a])
    BY <1>1, <1>3 DEF Covered, Tokens
  <2> QED
    BY <1>1, <1>2, <2>1, LearnTyped, LearnWithin
<1>5. mine \in Tokens
  BY <1>1, <1>3, <1>4 DEF Tokens
<1>6. \A v \in Workers : pc'[v] = "load" => pc[v] = "load" /\ AccountOf[v] # a
  <2> SUFFICES ASSUME NEW v \in Workers, pc'[v] = "load"
               PROVE  pc[v] = "load" /\ AccountOf[v] # a
    OBVIOUS
  <2>1. v # w /\ pc[v] = "load"
    BY <1>1 DEF TypeInv, TypeOK
  <2> QED
    BY <1>1, <2>1 DEF TypeInv, Locked, Busy
<1>7. Covered(mine, begun', pc')
  BY <1>1, <1>2, <1>3, <1>4, <1>6 DEF Covered, Tokens
<1> HIDE DEF mine
<1>8. TypeOK'
  BY <1>1, <1>5 DEF TypeInv, TypeOK, Point
<1>9. Locked'
  BY <1>1 DEF TypeInv, Locked, Busy, TypeOK
<1>10. \A i \in Inodes : content'[i] # Torn => Covered(content'[i], begun', pc')
  BY <1>1, <1>6, StaysCovered DEF TypeInv
<1>11. ASSUME NEW v \in Workers, pc'[v] \in {"open", "write", "rename"}
       PROVE  Covered(data'[v], begun', pc')
  <2>1. CASE v = w
    BY <1>1, <1>7, <2>1 DEF TypeInv, TypeOK
  <2>2. CASE v # w
    BY <1>1, <1>6, <1>11, <2>2, StaysCovered DEF TypeInv, TypeOK
  <2> QED
    BY <2>1, <2>2
<1> QED
  BY <1>8, <1>9, <1>10, <1>11 DEF TypeInv

(* Opening, writing, failing and dying only move what is covered already.   *)
LEMMA OpenTypes ==
  ASSUME TypeInv, NEW w \in Workers, OpenTmp(w)
  PROVE  TypeInv'
<1> USE TokenStoreAssumption
<1>1. /\ pc[w] = "open" /\ pc' = [pc EXCEPT ![w] = "write"]
      /\ UNCHANGED <<path, lock, lesson, data, mixed, begun, done>>
  BY DEF OpenTmp, Goto
<1>2. PICK i \in Inodes :
        tmp' = i /\ fd' = [fd EXCEPT ![w] = i] /\ content' = [content EXCEPT ![i] = Torn]
  BY DEF OpenTmp
<1>3. TypeOK' /\ Locked'
  BY <1>1, <1>2 DEF TypeInv, TypeOK, Locked, Busy, Point
<1>4. \A v \in Workers : pc'[v] = "load" => pc[v] = "load"
  BY <1>1 DEF TypeInv, TypeOK
<1>5. \A j \in Inodes : content'[j] # Torn => Covered(content'[j], begun', pc')
  BY <1>1, <1>2, <1>4, StaysCovered DEF TypeInv, TypeOK
<1>6. \A v \in Workers : pc'[v] \in {"open", "write", "rename"} => Covered(data'[v], begun', pc')
  BY <1>1, <1>4, StaysCovered DEF TypeInv, TypeOK
<1> QED
  BY <1>3, <1>5, <1>6 DEF TypeInv

LEMMA WriteTypes ==
  ASSUME TypeInv, NEW w \in Workers, Write(w)
  PROVE  TypeInv'
<1> USE TokenStoreAssumption
<1>1. /\ pc[w] = "write" /\ pc' = [pc EXCEPT ![w] = "rename"]
      /\ UNCHANGED <<path, tmp, lock, fd, lesson, data, begun, done>>
      /\ mixed' \subseteq mixed \cup Workers
  BY DEF Write, Goto
<1>2. PICK text \in {data[w], Torn} : content' = [content EXCEPT ![fd[w]] = text]
  BY DEF Write
<1>3. TypeOK' /\ Locked'
  BY <1>1, <1>2 DEF TypeInv, TypeOK, Locked, Busy, Point
<1>4. \A v \in Workers : pc'[v] = "load" => pc[v] = "load"
  BY <1>1 DEF TypeInv, TypeOK
<1>5. Covered(data[w], begun, pc)
  BY <1>1 DEF TypeInv
<1>6. \A j \in Inodes : content'[j] # Torn => Covered(content'[j], begun', pc')
  BY <1>1, <1>2, <1>4, <1>5, StaysCovered DEF TypeInv, TypeOK
<1>7. \A v \in Workers : pc'[v] \in {"open", "write", "rename"} => Covered(data'[v], begun', pc')
  BY <1>1, <1>4, <1>5, StaysCovered DEF TypeInv, TypeOK
<1> QED
  BY <1>3, <1>6, <1>7 DEF TypeInv

(* The report that renames has not been counted yet.                        *)
LEMMA RenameTypes ==
  ASSUME TypeInv, NEW w \in Workers, Rename(w)
  PROVE  TypeInv'
<1> USE TokenStoreAssumption
<1> DEFINE a == AccountOf[w]
<1>1. /\ a \in Accounts /\ pc[w] = "rename"
      /\ pc' = [pc EXCEPT ![w] = "idle"] /\ lock' = [lock EXCEPT ![a] = NoOne]
      /\ fd' = [fd EXCEPT ![w] = NoFile] /\ mixed' = mixed \ {w}
      /\ tmp' = NoFile /\ path' \in {path, tmp}
      /\ lesson' = [lesson EXCEPT ![w] = NoLesson] /\ data' = [data EXCEPT ![w] = Empty]
      /\ done' \in {done, [done EXCEPT ![a] = Learn(@, lesson[w])]}
      /\ path' # path => tmp # NoFile
      /\ UNCHANGED <<content, begun>>
  BY DEF Rename, Return, Goto
<1>2. /\ begun \in [Accounts -> 0..MaxReports] /\ done \in [Accounts -> Counts]
      /\ lesson[w] \in Lessons
  BY <1>1 DEF TypeInv, TypeOK, Tokens
<1>3. Below(done[a], begun[a])
  BY <1>1 DEF TypeInv, Locked, Busy
<1> HIDE DEF a
<1>4. done' \in Tokens /\ \A b \in Accounts : Within(done'[b], begun'[b])
  <2>1. /\ Learn(done[a], lesson[w]) \in Counts
        /\ Within(Learn(done[a], lesson[w]), begun[a])
    BY <1>1, <1>2, <1>3, LearnTyped, LearnWithin
  <2> QED
    BY <1>1, <1>2, <2>1 DEF TypeInv, TypeOK, Tokens
<1>5. TypeOK'
  BY <1>1, <1>4, UntaughtTyped DEF TypeInv, TypeOK, Point, Tokens, Empty
<1>6. Locked'
  <2> SUFFICES ASSUME NEW v \in Workers, Busy(v)'
               PROVE  lock'[AccountOf[v]] = v /\ Below(done'[AccountOf[v]], begun'[AccountOf[v]])
    BY DEF Locked
  <2>1. v # w /\ Busy(v)
    BY <1>1 DEF Busy, TypeInv, TypeOK
  <2>2. AccountOf[v] # a
    BY <1>1, <2>1 DEF a, TypeInv, Locked, Busy
  <2>3. AccountOf[v] \in Accounts /\ lock[AccountOf[v]] = v /\ Below(done[AccountOf[v]], begun[AccountOf[v]])
    BY <2>1 DEF TypeInv, Locked
  <2>4. lock'[AccountOf[v]] = lock[AccountOf[v]]
    BY <1>1, <2>2, <2>3 DEF TypeInv, TypeOK
  <2>5. done'[AccountOf[v]] = done[AccountOf[v]]
    BY <1>1, <1>2, <2>2, <2>3
  <2> QED
    BY <1>1, <2>3, <2>4, <2>5
<1>7. \A v \in Workers : pc'[v] = "load" => pc[v] = "load"
  BY <1>1 DEF TypeInv, TypeOK
<1>8. \A j \in Inodes : content'[j] # Torn => Covered(content'[j], begun', pc')
  BY <1>1, <1>7, StaysCovered DEF TypeInv
<1>9. \A v \in Workers : pc'[v] \in {"open", "write", "rename"} => Covered(data'[v], begun', pc')
  BY <1>1, <1>7, StaysCovered DEF TypeInv, TypeOK
<1> QED
  BY <1>5, <1>6, <1>8, <1>9 DEF TypeInv

LEMMA FailureTypes ==
  ASSUME TypeInv, NEW w \in Workers, WriteFails(w)
  PROVE  TypeInv'
<1> USE TokenStoreAssumption
<1>1. /\ AccountOf[w] \in Accounts /\ pc[w] \in {"open", "write"}
      /\ pc' = [pc EXCEPT ![w] = "idle"] /\ lock' = [lock EXCEPT ![AccountOf[w]] = NoOne]
      /\ fd' = [fd EXCEPT ![w] = NoFile] /\ mixed' = mixed \ {w}
      /\ lesson' = [lesson EXCEPT ![w] = NoLesson] /\ data' = [data EXCEPT ![w] = Empty]
      /\ UNCHANGED <<content, path, tmp, begun, done>>
  BY DEF WriteFails, Return, Goto
<1>2. TypeOK'
  BY <1>1, UntaughtTyped DEF TypeInv, TypeOK, Point, Tokens, Empty
<1>3. Locked'
  BY <1>1 DEF TypeInv, TypeOK, Locked, Busy
<1>4. \A v \in Workers : pc'[v] = "load" => pc[v] = "load"
  BY <1>1 DEF TypeInv, TypeOK
<1>5. \A j \in Inodes : content'[j] # Torn => Covered(content'[j], begun', pc')
  BY <1>1, <1>4, StaysCovered DEF TypeInv
<1>6. \A v \in Workers : pc'[v] \in {"open", "write", "rename"} => Covered(data'[v], begun', pc')
  BY <1>1, <1>4, StaysCovered DEF TypeInv, TypeOK
<1> QED
  BY <1>2, <1>3, <1>5, <1>6 DEF TypeInv

LEMMA CrashTypes ==
  ASSUME TypeInv, Crash
  PROVE  TypeInv'
BY TokenStoreAssumption, UntaughtTyped
   DEF TypeInv, TypeOK, Locked, Covered, Crash, Busy, Point, Tokens, Empty

LEMMA TypesStep ==
  ASSUME TypeInv, [Next]_vars
  PROVE  TypeInv'
<1>1. CASE UNCHANGED vars
  BY <1>1 DEF vars, TypeInv, TypeOK, Locked, Covered, Busy, Tokens
<1>2. CASE Crash
  BY <1>2, CrashTypes
<1>3. ASSUME NEW w \in Workers, Report(w)
      PROVE  TypeInv'
  BY <1>3, BeginTypes, LoadTypes, OpenTypes, WriteTypes, RenameTypes, FailureTypes
     DEF Report
<1> QED
  BY <1>1, <1>2, <1>3 DEF Next

(* Whatever accounts the threads train, the variables keep their types: a   *)
(* file handle never outlives its report, and no file, no memory of a       *)
(* report and no history counts a word of an account more often than        *)
(* reports were begun for it, even where updates are lost and files are     *)
(* overlaid.                                                               *)
THEOREM TypesHold == Spec => []TypeOK
<1>1. TypeInv => TypeOK
  BY DEF TypeInv
<1> QED
  BY <1>1, TypesInitially, TypesStep, PTL DEF Spec

=============================================================================
