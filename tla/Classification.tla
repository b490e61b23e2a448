--------------------------- MODULE Classification ---------------------------
(***************************************************************************)
(* SpamPipeline._classify (mailwatch/pipeline.py): the three detectors are  *)
(* asked one after the other while training replaces user_tokens.json, the  *)
(* feed loop fills phishing_feeds and users report messages.  Each reads    *)
(* the file or a table at a moment of its own.  A classification writes     *)
(* nothing, so that one of them is enough.                                 *)
(***************************************************************************)
EXTENDS TokenStore, PhishingFilter, SimilarityFilter

CONSTANTS
  Threshold,       \* daemon.spam_threshold, times Scale: 9000
  MinUserCounts,   \* _MIN_USER_COUNTS: 5
  Seed,            \* [Words -> the seed table's fraction of spam, or NoSeed]
  NoSeed,          \* of a word the seed table lacks
  Chi2(_),         \* _chi2_score of [words -> fractions], rounded, times Scale
  NoMail,          \* no message is being classified
  MaxChanges       \* bound: reports, rounds and removals begun

ASSUME ClassificationAssumption ==
  /\ Users = Accounts
  /\ Threshold \in 1..Scale
  /\ MinUserCounts \in Nat \ {0}
  /\ Seed \in [Words -> (Nat \X (Nat \ {0})) \cup {NoSeed}]
  /\ NoSeed \notin Nat \X (Nat \ {0})
  /\ NoMail \notin Mails
  /\ MaxChanges \in Nat

VARIABLES
  mail, step,        \* the message, and the detector that comes next
  bayes, phish,      \* verdicts so far
  links, hit,        \* links still to look up; was one listed?
  isSpam,            \* the verdict
  held, arisen,      \* history: what spoke against the message all along, ever
  changes            \* for MaxChanges

job == <<mail, step, bayes, phish, links, hit, isSpam>>

allVars == <<vars, phishing, similarity, job, held, arisen, changes>>

Step == {"idle", "bayes", "watch", "links", "similar", "done"}

-----------------------------------------------------------------------------
(* The Bayesian classifier.  A probability is a fraction <<part, whole>>,    *)
(* which nothing rounds; the score of a message is rounded, once.           *)

(* _token_probability of a word that the account's file counts n[k] times   *)
(* under label k: Robinson's correction, ...                               *)
Learned(n) == <<n["spam"] + 1, n["spam"] + n["ham"] + 2>>

(* ... the mean of two fractions, k to MinUserCounts - k, ...               *)
Blend(k, p, q) ==
  <<k * p[1] * q[2] + (MinUserCounts - k) * q[1] * p[2], MinUserCounts * p[2] * q[2]>>

Total(n) == n["spam"] + n["ham"]

(* ... and which of them the word gets.                                    *)
TokenProbability(x, n) ==
  IF Total(n) >= MinUserCounts THEN Learned(n)
  ELSE IF Total(n) = 0 THEN Seed[x]
  ELSE IF Seed[x] = NoSeed THEN <<1, 2>>
  ELSE Blend(Total(n), Learned(n), Seed[x])

(* The words that the seed table or the file has.                          *)
Known(m, counts) == {x \in m.words : Seed[x] # NoSeed \/ Total(counts[x]) > 0}

(* classify: each word once, all of them combined.                         *)
BayesScore(m, counts) ==
  IF Known(m, counts) = {} THEN Scale \div 2
  ELSE Chi2([x \in Known(m, counts) |-> TokenProbability(x, counts[x])])

Likely(m, counts) == BayesScore(m, counts) >= Threshold

-----------------------------------------------------------------------------
(* The steps of _classify.                                                 *)

Unasked ==
  /\ bayes' = FALSE
  /\ phish' = FALSE /\ hit' = FALSE /\ isSpam' = FALSE

Classify(m) ==
  /\ step \in {"idle", "done"}
  /\ mail' = m /\ step' = "bayes" /\ links' = m.links
  /\ Unasked

(* Mutant of AskBayes: the account is not passed on to classify, which then  *)
(* knows the seed table only.                                              *)
AskSeedsOnly ==
  /\ step = "bayes"
  /\ bayes' = Likely(mail, Untaught)
  /\ step' = "watch"
  /\ UNCHANGED <<mail, phish, links, hit, isSpam>>

(* The file is read once, at this moment.                                  *)
AskBayes ==
  /\ step = "bayes"
  /\ bayes' = Likely(mail, Loaded[mail.user])
  /\ step' = "watch"
  /\ UNCHANGED <<mail, phish, links, hit, isSpam>>

(* A sender on the watch list settles it.                                  *)
AskWatchList ==
  /\ step = "watch"
  /\ phish' = OnWatchList(mail)
  /\ step' = IF OnWatchList(mail) THEN "similar" ELSE "links"
  /\ UNCHANGED <<mail, bayes, links, hit, isSpam>>

(* One SELECT per link.                                                    *)
LookUp(host) ==
  /\ step = "links" /\ host \in links
  /\ hit' = (hit \/ InFeeds(host))
  /\ links' = links \ {host}
  /\ UNCHANGED <<mail, step, bayes, phish, isSpam>>

Analyzed ==
  /\ step = "links" /\ links = {}
  /\ phish' = Phishing(mail, hit)
  /\ step' = "similar"
  /\ UNCHANGED <<mail, bayes, links, hit, isSpam>>

(* The SELECT of the signatures, and the verdict.                          *)
AskSimilarity ==
  /\ step = "similar"
  /\ isSpam' = (bayes \/ SimilarityScore(mail) >= Threshold \/ phish)
  /\ step' = "done"
  /\ UNCHANGED <<mail, bayes, phish, links, hit>>

Classifying ==
  \/ \E m \in Mails : Classify(m)
  \/ AskBayes \/ AskWatchList \/ Analyzed \/ AskSimilarity
  \/ \E host \in links : LookUp(host)

-----------------------------------------------------------------------------
(* What speaks against a message, told from what training, feeds and users  *)
(* have said and not from how the detectors compute it.                    *)

(* Its words, after all that the account's reports have taught: what the     *)
(* file should hold, not what it does.                                     *)
WordsAgainst(m) == Likely(m, done[m.user])
LinkListed(m) == \E h \in m.links, f \in Feeds : <<h, f>> \in listed
FraudReported(m) == m.sender # NoHost /\ <<m.sender, m.user>> \in watched

(* Two texts are related if they have a shingle in common, or none at all.  *)
Related(t, u) == PairsOf[t] \cap PairsOf[u] # {} \/ PairsOf[t] \cup PairsOf[u] = {}
SpamOf(user) == {n \in Mails : n.user = user /\ \E i \in 1..Len(signatures) : signatures[i] = n}

(* Enough to flag the message.                                             *)
Evidence(m) ==
  {k \in {"words"} : WordsAgainst(m)} \cup
  {k \in {"link"} : LinkListed(m)} \cup
  {k \in {"fraud"} : FraudReported(m)} \cup
  {k \in {"copy"} :
     /\ m.text # NoText /\ Limit > 0
     /\ SpamOf(m.user) # {}
     /\ \A n \in SpamOf(m.user) : PairsOf[n.text] = PairsOf[m.text]}

(* Reason to flag it.                                                      *)
Grounds(m) ==
  \/ WordsAgainst(m) \/ LinkListed(m) \/ FraudReported(m)
  \/ m.text # NoText /\ \E n \in SpamOf(m.user) : Related(n.text, m.text)

(* History: held and arisen, from the beginning of a classification to its  *)
(* verdict.                                                                *)
Track ==
  IF step' = "idle" THEN held' = {} /\ arisen' = FALSE
  ELSE IF step = "done" /\ step' = "done" THEN UNCHANGED <<held, arisen>>
  ELSE IF step \in {"idle", "done"}
    THEN held' = Evidence(mail)' /\ arisen' = Grounds(mail)'
  ELSE held' = held \cap Evidence(mail)' /\ arisen' = (arisen \/ Grounds(mail)')

-----------------------------------------------------------------------------
Change == changes < MaxChanges /\ changes' = changes + 1

Training ==
  /\ \/ \E w \in Workers, l \in Lessons : Begin(w, l) /\ Change
     \/ \E w \in Workers :
          (Load(w) \/ OpenTmp(w) \/ Write(w) \/ Rename(w) \/ WriteFails(w)) /\ UNCHANGED changes
  /\ UNCHANGED <<phishing, similarity, job>>

Feeding ==
  /\ \/ StartRound /\ Change
     \/ \E f \in Feeds : Fetch(f) /\ UNCHANGED changes
     \/ \E row \in rows : (Store(row) \/ StoreFails(row)) /\ UNCHANGED changes
  /\ UNCHANGED <<vars, similarity, job>>

Reporting ==
  /\ \/ \E m \in Mails : ReportFraud(m) /\ Change /\ UNCHANGED similarity
     \/ \E m \in Mails : (AddSignature(m) \/ RemoveMessage(m)) /\ Change /\ UNCHANGED phishing
     \/ \E m \in Mails : CountText(m) /\ UNCHANGED <<phishing, changes>>
  /\ UNCHANGED <<vars, job>>

(* The daemon dies and is started again.                                   *)
Restart ==
  /\ Crash /\ ForgetRound /\ ForgetAdding
  /\ mail' = NoMail /\ step' = "idle" /\ links' = {} /\ Unasked
  /\ UNCHANGED changes

ClassificationInit ==
  /\ Init /\ PhishingInit /\ SimilarityInit
  /\ mail = NoMail /\ step = "idle"
  /\ bayes = FALSE /\ phish = FALSE
  /\ links = {} /\ hit = FALSE /\ isSpam = FALSE
  /\ held = {} /\ arisen = FALSE /\ changes = 0

ClassificationNext ==
  /\ \/ Classifying /\ UNCHANGED <<vars, phishing, similarity, changes>>
     \/ Training \/ Feeding \/ Reporting \/ Restart
  /\ Track

ClassificationSpec == ClassificationInit /\ [][ClassificationNext]_allVars

-----------------------------------------------------------------------------
(* Properties.                                                             *)

(* What the variables of the detectors and of a classification hold.       *)
DetectorsTypeOK ==
  /\ PhishingTypeOK
  /\ SimilarityTypeOK
  /\ mail \in Mails \cup {NoMail} /\ step \in Step
  /\ step = "idle" <=> mail = NoMail
  /\ bayes \in BOOLEAN /\ phish \in BOOLEAN /\ hit \in BOOLEAN /\ isSpam \in BOOLEAN
  /\ links \subseteq (IF mail = NoMail THEN {} ELSE mail.links)

(* A message with the same evidence against it all through is flagged,      *)
(* whatever is trained, refreshed, reported or removed in the meantime:     *)
(* words that the seed table and all spam and ham the account has reported  *)
(* make likely spam, a listed link, a reported sender, or a copy of         *)
(* reported spam.                                                          *)
NothingMissed == step = "done" /\ held # {} => isSpam

(* A message is flagged only if something spoke against it during its       *)
(* classification that the account itself, the seed table or a feed says:   *)
(* neither the brand heuristics alone nor what other accounts report moves  *)
(* mail, nor words that the account's ham reports, all of them counted,     *)
(* speak for, as long as no two hashes of a permutation collide.           *)
NoFalseAlarm == step = "done" /\ isSpam => arisen

=============================================================================
