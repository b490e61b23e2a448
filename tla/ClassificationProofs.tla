------------------------ MODULE ClassificationProofs ------------------------
(* What holds of the tables of the detectors for any number of accounts,    *)
(* feeds, domains and messages, and however training and classification     *)
(* interleave with the writers and with restarts.                          *)
EXTENDS Classification, TokenStoreProofs, FiniteSetTheorems, SequenceTheorems,
        WellFoundedInduction, TLAPS

(* A domain the feeds offer is stored, was refused, or is still to come.    *)
NothingSkipped == offer \subseteq listed \cup unstored \cup rows \cup (Hosts \X todo)

FeedInv == PhishingTypeOK /\ NothingSkipped

(* The steps as the phishing tables see them.                              *)
LEMMA PhishingSteps ==
  ASSUME ClassificationNext
  PROVE  \/ UNCHANGED phishing
         \/ StartRound \/ ForgetRound
         \/ \E f \in Feeds : Fetch(f)
         \/ \E row \in rows : Store(row) \/ StoreFails(row)
         \/ \E m \in Mails : ReportFraud(m)
BY DEF ClassificationNext, Classifying, Training, Feeding, Reporting, Restart

LEMMA SenderKnown ==
  ASSUME NEW m \in Mails
  PROVE  m.user \in Users /\ m.sender \in Senders /\ m.text \in Texts
BY MailAssumption DEF Message

LEMMA FeedsInitially ==
  ASSUME ClassificationInit
  PROVE  FeedInv
BY DEF ClassificationInit, PhishingInit, FeedInv, PhishingTypeOK, NothingSkipped

LEMMA FeedStep ==
  ASSUME FeedInv, ClassificationNext
  PROVE  FeedInv'
<1>1. CASE UNCHANGED phishing
  BY <1>1 DEF FeedInv, PhishingTypeOK, NothingSkipped, phishing, refresh
<1>2. CASE StartRound
  BY <1>2, FeedsAssumption DEF StartRound, FeedInv, PhishingTypeOK, NothingSkipped
<1>3. CASE ForgetRound
  BY <1>3 DEF ForgetRound, FeedInv, PhishingTypeOK, NothingSkipped
<1>4. ASSUME NEW f \in Feeds, Fetch(f)
      PROVE  FeedInv'
  <2>1. PhishingTypeOK'
    BY <1>4 DEF Fetch, FeedInv, PhishingTypeOK, RowsOf
  <2>2. NothingSkipped'
    <3> SUFFICES ASSUME NEW row \in offer
                 PROVE  row \in listed \cup unstored \cup RowsOf(f) \cup (Hosts \X (todo \ {f}))
      BY <1>4 DEF Fetch, NothingSkipped
    <3>1. rows = {}
      BY <1>4 DEF Fetch
    <3>2. row \in listed \cup unstored \/ row \in Hosts \X todo
      BY <3>1 DEF FeedInv, NothingSkipped
    <3> QED
      BY <3>2 DEF RowsOf
  <2> QED
    BY <2>1, <2>2 DEF FeedInv
<1>5. ASSUME NEW row \in rows, Store(row) \/ StoreFails(row)
      PROVE  FeedInv'
  BY <1>5 DEF Store, StoreFails, FeedInv, PhishingTypeOK, NothingSkipped
<1>6. ASSUME NEW m \in Mails, ReportFraud(m)
      PROVE  FeedInv'
  BY <1>6, SenderKnown
     DEF ReportFraud, refresh, FeedInv, PhishingTypeOK, NothingSkipped, Senders
<1> QED
  BY <1>1, <1>2, <1>3, <1>4, <1>5, <1>6, PhishingSteps

(* Between rounds the table has all that the feeds of the last one offered, *)
(* whichever feeds were down and whichever rows failed (phishing.py,        *)
(* update_all and _process_feed).                                          *)
THEOREM RoundsAreComplete == ClassificationSpec => []RefreshIsComplete
<1>1. FeedInv /\ UNCHANGED allVars => FeedInv'
  BY DEF FeedInv, PhishingTypeOK, NothingSkipped, allVars, phishing, refresh
<1>2. FeedInv => RefreshIsComplete
  BY DEF FeedInv, NothingSkipped, RefreshIsComplete
<1> QED
  BY <1>1, <1>2, FeedsInitially, FeedStep, PTL DEF ClassificationSpec

-----------------------------------------------------------------------------
(* An account's report under way is not in its counter yet, and the account *)
(* has one under way at most.                                              *)
CountInv ==
  /\ counted \in [Content -> Nat] /\ reported \in [Content -> Nat]
  /\ adding \subseteq Mails
  /\ \A m, n \in adding : m.user = n.user => m = n
  /\ \A c \in Content : counted[c] <= reported[c]
  /\ \A m \in adding : counted[ContentOf(m)] < reported[ContentOf(m)]

LEMMA SimilaritySteps ==
  ASSUME ClassificationNext
  PROVE  \/ UNCHANGED <<counted, adding, reported>>
         \/ ForgetAdding
         \/ \E m \in Mails : AddSignature(m) \/ CountText(m)
BY DEF ClassificationNext, Classifying, Training, Feeding, Reporting, Restart,
       RemoveMessage, similarity

LEMMA ContentKnown ==
  ASSUME NEW m \in Mails
  PROVE  ContentOf(m) \in Content
BY SenderKnown DEF ContentOf, Content

LEMMA CountStep ==
  ASSUME CountInv, ClassificationNext
  PROVE  CountInv'
<1>1. CASE UNCHANGED <<counted, adding, reported>>
  BY <1>1 DEF CountInv
<1>2. CASE ForgetAdding
  BY <1>2 DEF ForgetAdding, CountInv
<1>3. ASSUME NEW m \in Mails, AddSignature(m)
      PROVE  CountInv'
  <2>1. ContentOf(m) \in Content
    BY ContentKnown
  <2>2. /\ adding' = adding \cup {m} /\ counted' = counted
        /\ reported' = [reported EXCEPT ![ContentOf(m)] = @ + 1]
        /\ \A n \in adding : n.user # m.user
    BY <1>3 DEF AddSignature
  <2>3. reported' \in [Content -> Nat] /\ \A c \in Content : counted'[c] <= reported'[c]
    BY <2>1, <2>2 DEF CountInv
  <2>4. ASSUME NEW n \in adding'
        PROVE  counted'[ContentOf(n)] < reported'[ContentOf(n)]
    <3>1. n \in Mails /\ ContentOf(n) \in Content
      BY <2>2, ContentKnown DEF CountInv
    <3>2. CASE n = m
      BY <2>1, <2>2, <3>2 DEF CountInv
    <3>3. CASE n \in adding
      BY <2>1, <2>2, <3>1, <3>3 DEF CountInv
    <3> QED
      BY <2>2, <3>2, <3>3
  <2> QED
    BY <2>2, <2>3, <2>4 DEF CountInv
<1>4. ASSUME NEW m \in Mails, CountText(m)
      PROVE  CountInv'
  <2>1. ContentOf(m) \in Content
    BY ContentKnown
  <2>2. /\ m \in adding /\ adding' = adding \ {m} /\ reported' = reported
        /\ counted' = [counted EXCEPT ![ContentOf(m)] = @ + 1]
    BY <1>4 DEF CountText
  <2>3. counted' \in [Content -> Nat] /\ \A c \in Content : counted'[c] <= reported'[c]
    BY <2>1, <2>2 DEF CountInv
  <2>4. ASSUME NEW n \in adding'
        PROVE  counted'[ContentOf(n)] < reported'[ContentOf(n)]
    <3>1. n \in adding /\ n \in Mails /\ n # m /\ ContentOf(n) \in Content
      BY <2>2, ContentKnown DEF CountInv
    <3>2. ContentOf(n) # ContentOf(m)
      BY <2>2, <3>1 DEF CountInv, ContentOf
    <3> QED
      BY <2>1, <2>2, <3>1, <3>2 DEF CountInv
  <2> QED
    BY <2>2, <2>3, <2>4 DEF CountInv
<1> QED
  BY <1>1, <1>2, <1>3, <1>4, SimilaritySteps

(* What the counters say, the reports say.                                 *)
LEMMA CountedIsReported ==
  ASSUME CountInv, IsFiniteSet(Hosts), NEW m \in Mails, Repeated(m)
  PROVE  Harassing(reported, m) \/ Campaign(reported, m)
<1>1. ContentOf(m) \in Content /\ m.user \in Users /\ m.text \in Texts
  BY ContentKnown, SenderKnown
<1>2. CASE Harassing(counted, m)
  BY <1>1, <1>2, SimilarityAssumption DEF Harassing, CountInv
<1>3. CASE Campaign(counted, m)
  <2> DEFINE few == {h \in Senders : counted[<<m.user, m.text, h>>] > 0}
             all == {h \in Senders : reported[<<m.user, m.text, h>>] > 0}
  <2>1. few \subseteq all
    <3> SUFFICES ASSUME NEW h \in Senders, counted[<<m.user, m.text, h>>] > 0
                 PROVE  reported[<<m.user, m.text, h>>] > 0
      OBVIOUS
    <3>1. <<m.user, m.text, h>> \in Content
      BY <1>1 DEF Content
    <3> HIDE DEF few, all
    <3> QED
      BY <3>1 DEF CountInv
  <2>2. IsFiniteSet(Senders)
    BY FS_AddElement DEF Senders
  <2>3. IsFiniteSet(all)
    BY <2>2, FS_Subset
  <2>4. Cardinality(few) \in Nat /\ Cardinality(all) \in Nat /\ Cardinality(few) <= Cardinality(all)
    BY <2>1, <2>3, FS_Subset, FS_CardinalityType
  <2>5. Cardinality(few) >= DiffSenderMin
    BY <1>3 DEF Campaign
  <2>6. Cardinality(all) >= DiffSenderMin
    BY <2>4, <2>5 DEF DiffSenderMin
  <2> QED
    BY <2>6 DEF Campaign
<1> QED
  BY <1>2, <1>3 DEF Repeated

(* check_repeated never accuses on more than the account's own reports      *)
(* (spam_similarity.py), through concurrent reports and restarts.          *)
THEOREM RepetitionIsReported ==
  ASSUME IsFiniteSet(Hosts)
  PROVE  ClassificationSpec => []RepeatedIsReported
<1>1. ClassificationInit => CountInv
  BY DEF ClassificationInit, SimilarityInit, CountInv
<1>2. CountInv /\ UNCHANGED allVars => CountInv'
  BY DEF CountInv, allVars, similarity
<1>3. CountInv => RepeatedIsReported
  BY CountedIsReported DEF RepeatedIsReported
<1> QED
  BY <1>1, <1>2, <1>3, CountStep, PTL DEF ClassificationSpec

-----------------------------------------------------------------------------
(* The operators of the detectors.                                         *)

(* Min and Max of sets of numbers, which are CHOOSE: every number below x   *)
(* is in 0..x, and finite sets have a least one by inclusion.               *)
LEMMA LeastExists ==
  ASSUME NEW S \in SUBSET Nat, S # {}
  PROVE  Min(S) \in S /\ \A n \in S : Min(S) <= n
<1> DEFINE R == StrictSubsetOrdering(Nat)
           T == {0..n : n \in S}
<1>1. IsWellFoundedOn(R, FiniteSubsetsOf(Nat))
  BY FS_StrictSubsetOrderingWellFounded
<1>2. T \subseteq FiniteSubsetsOf(Nat) /\ T # {}
  <2> SUFFICES ASSUME NEW n \in S
               PROVE  0..n \in FiniteSubsetsOf(Nat)
    OBVIOUS
  <2>1. n \in Int /\ 0 \in Int /\ 0..n \in SUBSET Nat
    OBVIOUS
  <2>2. IsFiniteSet(0..n)
    BY <2>1, FS_Interval
  <2> QED
    BY <2>1, <2>2 DEF FiniteSubsetsOf
<1>3. PICK t \in T : \A u \in T : <<u, t>> \notin R
  <2> HIDE DEF R, T
  <2> QED
    BY <1>1, <1>2, WFMin
<1>4. PICK x \in S : t = 0..x
  OBVIOUS
<1>5. ASSUME NEW y \in S
      PROVE  x <= y
  <2>1. <<0..y, 0..x>> \notin R
    BY <1>3, <1>4
  <2>2. ~ (0..y \subseteq 0..x /\ 0..y # 0..x)
    BY <2>1 DEF StrictSubsetOrdering
  <2> QED
    BY <2>2
<1> QED
  BY <1>5 DEF Min

LEMMA GreatestExists ==
  ASSUME NEW S \in SUBSET Nat, S # {}, NEW b \in Nat, \A n \in S : n <= b
  PROVE  Max(S) \in S
<1> DEFINE T == {b - n : n \in S}
<1>1. T \in SUBSET Nat /\ T # {}
  <2> SUFFICES ASSUME NEW n \in S
               PROVE  b - n \in Nat
    OBVIOUS
  <2>1. n \in Nat /\ n <= b
    OBVIOUS
  <2> QED
    BY <2>1
<1>2. Min(T) \in T /\ \A n \in T : Min(T) <= n
  <2> HIDE DEF T
  <2> QED
    BY <1>1, LeastExists
<1>3. PICK x \in S : Min(T) = b - x
  BY <1>2
<1>4. ASSUME NEW y \in S
      PROVE  x >= y
  <2>1. b - x <= b - y
    BY <1>2, <1>3
  <2> QED
    BY <2>1
<1> QED
  BY <1>4 DEF Max

LEMMA DivBounds ==
  ASSUME NEW a \in Nat, NEW b \in Nat \ {0}
  PROVE  /\ a \div b \in Nat
         /\ b * (a \div b) <= a
         /\ a < b * (a \div b) + b
OBVIOUS

(* A ratio of at most one rounds to at most Scale; one to Scale, and        *)
(* nothing to 0.                                                           *)
LEMMA RoundBounds ==
  ASSUME NEW n \in Nat \ {0}, NEW k \in 0..n
  PROVE  /\ Round(k, n) \in 0..Scale
         /\ k = n => Round(k, n) = Scale
         /\ k = 0 => Round(k, n) = 0
<1> DEFINE a == 20000 * k + n
           d == 2 * n
           q == a \div d
<1>1. a \in Nat /\ d \in Nat \ {0}
  OBVIOUS
<1>2. q \in Nat /\ 2 * n * q <= 20000 * k + n /\ 20000 * k + n < 2 * n * q + 2 * n
  <2> HIDE DEF a, d
  <2>1. q \in Nat /\ d * q <= a /\ a < d * q + d
    BY <1>1, DivBounds
  <2> QED
    BY <2>1 DEF a, d
<1>3. Round(k, n) = q
  BY DEF Round, Scale
<1> HIDE DEF q
<1>4. q <= 10000
  <2> SUFFICES ASSUME q >= 10001
               PROVE  FALSE
    BY <1>2
  <2>1. n * q >= n * 10001
    BY <1>2
  <2> QED
    BY <1>2, <2>1
<1>5. k = n => q = 10000
  <2> SUFFICES ASSUME k = n, q <= 9999
               PROVE  FALSE
    BY <1>2, <1>4
  <2>1. n * q <= n * 9999
    BY <1>2
  <2> QED
    BY <1>2, <2>1
<1>6. k = 0 => q = 0
  <2> SUFFICES ASSUME k = 0, q >= 1
               PROVE  FALSE
    BY <1>2
  <2>1. n * q >= n
    BY <1>2
  <2> QED
    BY <1>2, <2>1
<1> QED
  BY <1>2, <1>3, <1>4, <1>5, <1>6 DEF Scale

-----------------------------------------------------------------------------
(* Robinson's correction and the blend stay proper: between 0 and 1, which  *)
(* _chi2_score takes the logarithms of, for every number of messages, a     *)
(* seed table of proper fractions and any MinUserCounts.                    *)
Proper(p) == p \in Nat \X (Nat \ {0}) /\ p[1] <= p[2]

LEMMA BlendIsProper ==
  ASSUME NEW k \in 0..MinUserCounts, NEW p, Proper(p), NEW q, Proper(q)
  PROVE  Proper(Blend(k, p, q))
<1> DEFINE n == MinUserCounts
           u == n - k
           a == p[1]
           b == p[2]
           c == q[1]
           d == q[2]
<1>1. /\ n \in Nat \ {0} /\ k \in Nat /\ u \in Nat /\ k + u = n
      /\ a \in Nat /\ b \in Nat \ {0} /\ a <= b
      /\ c \in Nat /\ d \in Nat \ {0} /\ c <= d
  BY ClassificationAssumption DEF Proper
<1>2. Blend(k, p, q) = <<k * a * d + u * c * b, n * b * d>>
  BY DEF Blend
<1> HIDE DEF n, u, a, b, c, d
<1>3. b * d \in Nat \ {0} /\ a * d \in Nat /\ c * b \in Nat /\ a * d <= b * d /\ c * b <= b * d
  BY <1>1
<1>4. /\ k * (a * d) <= k * (b * d) /\ u * (c * b) <= u * (b * d)
      /\ k * (b * d) + u * (b * d) = n * (b * d)
      /\ k * (a * d) \in Nat /\ u * (c * b) \in Nat /\ n * (b * d) \in Nat \ {0}
  BY <1>1, <1>3
<1>5. k * a * d = k * (a * d) /\ u * c * b = u * (c * b) /\ n * b * d = n * (b * d)
  BY <1>1
<1>6. k * a * d + u * c * b \in Nat /\ n * b * d \in Nat \ {0} /\ k * a * d + u * c * b <= n * b * d
  <2> DEFINE e == k * (a * d)
             f == u * (c * b)
             g == k * (b * d)
             h == u * (b * d)
             t == n * (b * d)
  <2>1. e \in Nat /\ f \in Nat /\ t \in Nat \ {0} /\ g \in Int /\ h \in Int
    BY <1>1, <1>3, <1>4
  <2>2. e <= g /\ f <= h /\ g + h = t
    BY <1>4
  <2> HIDE DEF e, f, g, h, t
  <2>3. e + f \in Nat /\ e + f <= t
    BY <2>1, <2>2
  <2>4. k * a * d + u * c * b = e + f /\ n * b * d = t
    BY <1>5 DEF e, f, t
  <2> QED
    BY <2>1, <2>3, <2>4
<1> QED
  BY <1>2, <1>6 DEF Proper

(* Every word that the classifier combines has a probability between 0 and  *)
(* 1, whatever was trained (spam_detect.py, _token_probability).            *)
THEOREM ProbabilitiesAreProper ==
  ASSUME \A x \in Words : Seed[x] # NoSeed => Proper(Seed[x]),
         NEW m \in Mails, NEW counts \in Counts, NEW x \in Known(m, counts)
  PROVE  Proper(TokenProbability(x, counts[x]))
<1> DEFINE n == counts[x]
<1>1. /\ x \in Words /\ (Seed[x] # NoSeed \/ Total(n) > 0)
      /\ n["spam"] \in Nat /\ n["ham"] \in Nat
  BY MailAssumption DEF Known, Message, Counts, Labels
<1>2. Total(n) \in Nat /\ MinUserCounts \in Nat \ {0}
  BY <1>1, ClassificationAssumption DEF Total
<1>3. Proper(Learned(n))
  <2>1. n["spam"] + 1 \in Nat /\ n["spam"] + n["ham"] + 2 \in Nat \ {0} /\ n["spam"] + 1 <= n["spam"] + n["ham"] + 2
    BY <1>1
  <2> QED
    BY <2>1 DEF Proper, Learned
<1>4. Proper(<<1, 2>>)
  BY DEF Proper
<1> SUFFICES Proper(TokenProbability(x, n))
  OBVIOUS
<1> HIDE DEF n
<1>5. CASE Total(n) >= MinUserCounts
  BY <1>2, <1>3, <1>5 DEF TokenProbability
<1>6. CASE Total(n) = 0
  BY <1>1, <1>2, <1>6 DEF TokenProbability
<1>7. CASE Total(n) \in 1..(MinUserCounts - 1) /\ Seed[x] = NoSeed
  BY <1>2, <1>4, <1>7 DEF TokenProbability
<1>8. CASE Total(n) \in 1..(MinUserCounts - 1) /\ Seed[x] # NoSeed
  <2>1. Total(n) \in 0..MinUserCounts /\ Proper(Seed[x])
    BY <1>1, <1>2, <1>8
  <2>2. TokenProbability(x, n) = Blend(Total(n), Learned(n), Seed[x])
    BY <1>2, <1>8 DEF TokenProbability
  <2>3. Proper(Blend(Total(n), Learned(n), Seed[x]))
    BY <1>3, <2>1, BlendIsProper
  <2> QED
    BY <2>2, <2>3
<1> QED
  BY <1>2, <1>5, <1>6, <1>7, <1>8

-----------------------------------------------------------------------------
(* Signatures agree everywhere if the texts have the same shingles ...      *)
LEMMA PermsCounted ==
  Cardinality(Perms) \in Nat \ {0}
BY SimilarityAssumption, FS_CardinalityType, FS_EmptySet

LEMMA EqualBounds ==
  ASSUME NEW t, NEW u
  PROVE  /\ Equal(t, u) \in 0..Cardinality(Perms)
         /\ PairsOf[t] = PairsOf[u] => Equal(t, u) = Cardinality(Perms)
         /\ Equal(t, u) # 0 => \E p \in Perms : Signature(t)[p] = Signature(u)[p]
<1> DEFINE same == {p \in Perms : Signature(t)[p] = Signature(u)[p]}
<1>1. Equal(t, u) = Cardinality(same)
  BY DEF Equal
<1>2. IsFiniteSet(same) /\ Cardinality(same) <= Cardinality(Perms) /\ Cardinality(same) \in Nat
  BY SimilarityAssumption, FS_Subset, FS_CardinalityType
<1>3. PairsOf[t] = PairsOf[u] => same = Perms
  BY DEF Signature
<1>4. Cardinality(same) # 0 => \E p \in Perms : Signature(t)[p] = Signature(u)[p]
  <2>1. Cardinality(same) # 0 => same # {}
    BY FS_EmptySet
  <2> QED
    BY <2>1
<1> HIDE DEF same
<1> QED
  BY <1>1, <1>2, <1>3, <1>4, PermsCounted

(* ... and nowhere if they have none in common, unless hashes collide: two  *)
(* shingles have the same mixed hash, or one has that of no shingle.        *)
NoCollision ==
  \A p \in Perms, s, t \in Shingles : Mix[p][s] > 0 /\ (Mix[p][s] = Mix[p][t] => s = t)

LEMMA LeastHash ==
  ASSUME NEW p \in Perms, NEW t \in Texts, PairsOf[t] # {}
  PROVE  \E s \in PairsOf[t] : s \in Shingles /\ Signature(t)[p] = Mix[p][s]
<1> DEFINE H == {Mix[p][s] : s \in PairsOf[t]}
<1>1. PairsOf[t] \subseteq Shingles
  BY MailAssumption
<1>2. H \in SUBSET Nat /\ H # {}
  BY <1>1, SimilarityAssumption
<1>3. Min(H) \in H
  <2> HIDE DEF H
  <2> QED
    BY <1>2, LeastExists
<1>4. Signature(t)[p] = Min(H)
  BY DEF Signature
<1> QED
  BY <1>1, <1>3, <1>4

LEMMA AgreementIsRelation ==
  ASSUME NoCollision, NEW t \in Texts, NEW u \in Texts, Equal(t, u) # 0
  PROVE  Related(t, u)
<1>1. PICK p \in Perms : Signature(t)[p] = Signature(u)[p]
  BY EqualBounds
<1>2. CASE PairsOf[t] = {} /\ PairsOf[u] = {}
  BY <1>2 DEF Related
<1>3. CASE PairsOf[t] = {} /\ PairsOf[u] # {}
  <2>1. PICK s \in PairsOf[u] : s \in Shingles /\ Signature(u)[p] = Mix[p][s]
    BY <1>3, LeastHash
  <2>2. Signature(t)[p] = 0
    BY <1>3 DEF Signature
  <2>3. Mix[p][s] \in Nat /\ Mix[p][s] > 0
    BY <2>1, SimilarityAssumption DEF NoCollision
  <2> QED
    BY <1>1, <2>1, <2>2, <2>3
<1>4. CASE PairsOf[t] # {} /\ PairsOf[u] = {}
  <2>1. PICK s \in PairsOf[t] : s \in Shingles /\ Signature(t)[p] = Mix[p][s]
    BY <1>4, LeastHash
  <2>2. Signature(u)[p] = 0
    BY <1>4 DEF Signature
  <2>3. Mix[p][s] \in Nat /\ Mix[p][s] > 0
    BY <2>1, SimilarityAssumption DEF NoCollision
  <2>4. Mix[p][s] = 0
    BY <1>1, <2>1, <2>2
  <2> QED
    BY <2>3, <2>4
<1>5. CASE PairsOf[t] # {} /\ PairsOf[u] # {}
  <2>1. PICK s \in PairsOf[t] : s \in Shingles /\ Signature(t)[p] = Mix[p][s]
    BY <1>5, LeastHash
  <2>2. PICK r \in PairsOf[u] : r \in Shingles /\ Signature(u)[p] = Mix[p][r]
    BY <1>5, LeastHash
  <2>3. s = r
    BY <1>1, <2>1, <2>2 DEF NoCollision
  <2> QED
    BY <2>1, <2>2, <2>3 DEF Related
<1> QED
  BY <1>2, <1>3, <1>4, <1>5

(* The score is that of one of the account's newest signatures; with copies *)
(* only among them it is Scale.                                            *)
LEMMA ScoreReason ==
  ASSUME signatures \in Seq(Mails), NoCollision, NEW m \in Mails, SimilarityScore(m) # 0
  PROVE  m.text # NoText /\ \E n \in SpamOf(m.user) : Related(n.text, m.text)
<1> DEFINE P == Cardinality(Perms)
           known == Recent(m.user)
           score == [i \in known |-> Equal(m.text, signatures[i].text)]
           near == {i \in known : IsNear(score[i])}
           all == {0} \cup {score[i] : i \in known}
           best == IF near # {} THEN score[Min(near)] ELSE Max(all)
<1>1. m.text # NoText /\ SimilarityScore(m) = Round(best, P)
  BY DEF SimilarityScore
<1>2. \A i \in known : i \in 1..Len(signatures) /\ signatures[i] \in Mails /\ signatures[i].user = m.user
  BY DEF Recent
<1>3. known \subseteq Nat
  BY <1>2
<1>4. P \in Nat \ {0} /\ \A i \in known : score[i] \in 0..P
  BY PermsCounted, EqualBounds
<1> HIDE DEF known, score, P
<1>5. best \in all
  <2>1. CASE near # {}
    <3>1. near \in SUBSET Nat
      BY <1>3
    <3>2. Min(near) \in near
      <4> HIDE DEF near
      <4> QED
        BY <2>1, <3>1, LeastExists
    <3> QED
      BY <2>1, <3>2
  <2>2. CASE near = {}
    <3>1. all \in SUBSET Nat /\ all # {} /\ P \in Nat /\ \A n \in all : n <= P
      BY <1>4
    <3>2. Max(all) \in all
      <4> HIDE DEF all
      <4> QED
        BY <3>1, GreatestExists
    <3> QED
      BY <2>2, <3>2
  <2> QED
    BY <2>1, <2>2
<1> HIDE DEF best, near
<1>6. best # 0
  <2> SUFFICES ASSUME best = 0
               PROVE  FALSE
    OBVIOUS
  <2>1. Round(0, P) = 0
    BY <1>4, RoundBounds
  <2> QED
    BY <1>1, <2>1
<1>7. PICK i \in known : score[i] # 0
  BY <1>5, <1>6
<1>8. Equal(m.text, signatures[i].text) # 0
  BY <1>7 DEF score
<1>9. m.text \in Texts /\ signatures[i].text \in Texts
  BY <1>2, SenderKnown
<1>10. Related(m.text, signatures[i].text)
  BY <1>8, <1>9, AgreementIsRelation
<1>11. Related(signatures[i].text, m.text)
  BY <1>10 DEF Related
<1>12. signatures[i] \in SpamOf(m.user)
  BY <1>2 DEF SpamOf
<1> QED
  BY <1>1, <1>11, <1>12

LEMMA CopyIsFound ==
  ASSUME signatures \in Seq(Mails), NEW m \in Mails, m.text # NoText, Limit > 0,
         SpamOf(m.user) # {}, \A n \in SpamOf(m.user) : PairsOf[n.text] = PairsOf[m.text]
  PROVE  SimilarityScore(m) = Scale
<1> DEFINE P == Cardinality(Perms)
           known == Recent(m.user)
           score == [i \in known |-> Equal(m.text, signatures[i].text)]
           near == {i \in known : IsNear(score[i])}
           all == {0} \cup {score[i] : i \in known}
           own == {i \in 1..Len(signatures) : signatures[i].user = m.user}
<1>1. P \in Nat \ {0}
  BY PermsCounted
<1>2. \A i \in known : i \in Nat /\ score[i] = P
  <2> SUFFICES ASSUME NEW i \in known
               PROVE  i \in Nat /\ PairsOf[signatures[i].text] = PairsOf[m.text]
    BY EqualBounds
  <2>1. i \in 1..Len(signatures) /\ signatures[i].user = m.user /\ signatures[i] \in Mails
    BY DEF Recent
  <2>2. signatures[i] \in SpamOf(m.user)
    BY <2>1 DEF SpamOf
  <2> QED
    BY <2>1, <2>2
<1>3. known # {}
  <2>1. own \in SUBSET Nat /\ own # {}
    BY DEF SpamOf
  <2>2. Min(own) \in own /\ \A n \in own : Min(own) <= n
    <3> HIDE DEF own
    <3> QED
      BY <2>1, LeastExists
  <2>3. PICK k \in own : \A n \in own : k <= n
    <3> HIDE DEF own
    <3> QED
      BY <2>2
  <2>4. {j \in 1..(k - 1) : signatures[j].user = m.user} = {}
    <3> SUFFICES ASSUME NEW j \in 1..(k - 1), signatures[j].user = m.user
                 PROVE  FALSE
      OBVIOUS
    <3>1. k \in 1..Len(signatures) /\ Len(signatures) \in Nat
      OBVIOUS
    <3>2. j \in own
      BY <3>1
    <3>3. k <= j
      BY <2>3, <3>2
    <3> QED
      BY <3>1, <3>3
  <2>5. Cardinality({j \in 1..(k - 1) : signatures[j].user = m.user}) < Limit
    BY <2>4, FS_EmptySet
  <2> QED
    BY <2>5 DEF Recent
<1> HIDE DEF known, score, P
<1>4. near = known
  BY <1>1, <1>2 DEF IsNear, P
<1>5. score[Min(near)] = P
  <2>1. near \in SUBSET Nat /\ near # {}
    BY <1>2, <1>3, <1>4
  <2>2. Min(near) \in near
    <3> HIDE DEF near
    <3> QED
      BY <2>1, LeastExists
  <2> QED
    BY <1>2, <1>4, <2>2
<1>6. SimilarityScore(m) = Round(IF near # {} THEN score[Min(near)] ELSE Max(all), P)
  BY DEF SimilarityScore, known, score, P
<1>7. Round(P, P) = Scale
  BY <1>1, RoundBounds
<1> QED
  BY <1>3, <1>4, <1>5, <1>6, <1>7

-----------------------------------------------------------------------------
(* A classification and its types.                                         *)

(* Of the steps of the whole, a classification sees its own, a restart, and *)
(* those that change what it asks but not what it has.                      *)
Quiet == UNCHANGED <<vars, phishing, similarity>>

LEMMA JobSteps ==
  ASSUME ClassificationNext
  PROVE  \/ UNCHANGED job
         \/ Restart
         \/ Quiet /\ \E m \in Mails : Classify(m)
         \/ Quiet /\ AskBayes
         \/ Quiet /\ AskWatchList
         \/ Quiet /\ \E host \in links : LookUp(host)
         \/ Quiet /\ Analyzed
         \/ Quiet /\ AskSimilarity
BY DEF ClassificationNext, Classifying, Training, Feeding, Reporting, Quiet

LEMMA TokenSteps ==
  ASSUME ClassificationNext
  PROVE  [Next]_vars
<1>1. CASE UNCHANGED vars
  BY <1>1
<1>2. CASE Training
  BY <1>2 DEF Training, Next, Report
<1>3. CASE Restart
  BY <1>3 DEF Restart, Next
<1> QED
  BY <1>1, <1>2, <1>3 DEF ClassificationNext, Feeding, Reporting

LEMMA SignatureSteps ==
  ASSUME ClassificationNext
  PROVE  \/ signatures' = signatures
         \/ \E m \in Mails : signatures' \in {<<m>> \o Without(signatures, m), Without(signatures, m)}
BY DEF ClassificationNext, Classifying, Training, Feeding, Reporting, Restart, similarity,
       AddSignature, CountText, RemoveMessage, ForgetAdding

LEMMA WithoutType ==
  ASSUME NEW s \in Seq(Mails), NEW m
  PROVE  Without(s, m) \in Seq(Mails)
<1> DEFINE at == CHOOSE i \in 1..Len(s) : s[i] = m
<1>1. CASE \E i \in 1..Len(s) : s[i] = m
  <2>1. at \in 1..Len(s) /\ Len(s) \in Nat
    BY <1>1
  <2>2. Without(s, m) = SubSeq(s, 1, at - 1) \o SubSeq(s, at + 1, Len(s))
    BY <1>1 DEF Without
  <2> HIDE DEF at
  <2>3. 1 \in Int /\ at - 1 \in Int /\ \A i \in 1..(at - 1) : s[i] \in Mails
    BY <2>1, ElementOfSeq
  <2>4. at + 1 \in Int /\ Len(s) \in Int /\ \A i \in (at + 1)..Len(s) : s[i] \in Mails
    BY <2>1, ElementOfSeq
  <2>5. SubSeq(s, 1, at - 1) \in Seq(Mails)
    BY <2>3, SubSeqProperties
  <2>6. SubSeq(s, at + 1, Len(s)) \in Seq(Mails)
    BY <2>4, SubSeqProperties
  <2> QED
    BY <2>2, <2>5, <2>6, ConcatProperties
<1>2. CASE ~ \E i \in 1..Len(s) : s[i] = m
  BY <1>2 DEF Without
<1> QED
  BY <1>1, <1>2

LEMMA SignaturesStep ==
  ASSUME signatures \in Seq(Mails), ClassificationNext
  PROVE  signatures' \in Seq(Mails)
<1>1. ASSUME NEW m \in Mails,
             signatures' \in {<<m>> \o Without(signatures, m), Without(signatures, m)}
      PROVE  signatures' \in Seq(Mails)
  <2>1. <<m>> \in Seq(Mails) /\ Without(signatures, m) \in Seq(Mails)
    BY WithoutType
  <2>2. <<m>> \o Without(signatures, m) \in Seq(Mails)
    BY <2>1, ConcatProperties
  <2> QED
    BY <1>1, <2>1, <2>2
<1> QED
  BY <1>1, SignatureSteps

JobTypeOK ==
  /\ mail \in Mails \cup {NoMail} /\ step \in Step
  /\ step = "idle" <=> mail = NoMail
  /\ bayes \in BOOLEAN /\ phish \in BOOLEAN /\ hit \in BOOLEAN /\ isSpam \in BOOLEAN
  /\ links \subseteq (IF mail = NoMail THEN {} ELSE mail.links)

(* All types at once: the counters' because SimilarityTypeOK says that they  *)
(* never exceed the reports.                                               *)
DetectorsInv ==
  FeedInv /\ CountInv /\ signatures \in Seq(Mails) /\ JobTypeOK

LEMMA MailKnown ==
  ASSUME NEW m \in Mails
  PROVE  /\ m \in Message /\ m # NoMail
         /\ m.user \in Accounts /\ m.words \subseteq Words /\ m.links \subseteq Hosts
BY MailAssumption, ClassificationAssumption DEF Message

LEMMA JobStep ==
  ASSUME DetectorsInv, ClassificationNext
  PROVE  JobTypeOK'
<1>1. CASE UNCHANGED job
  BY <1>1 DEF job, DetectorsInv, JobTypeOK
<1>2. CASE Restart
  <2>1. /\ mail' = NoMail /\ step' = "idle" /\ links' = {} /\ bayes' = FALSE
        /\ phish' = FALSE /\ hit' = FALSE /\ isSpam' = FALSE
    BY <1>2 DEF Restart, Unasked
  <2> QED
    BY <2>1 DEF JobTypeOK, Step
<1>3. ASSUME NEW m \in Mails, Classify(m)
      PROVE  JobTypeOK'
  <2>1. /\ mail' = m /\ step' = "bayes" /\ links' = m.links /\ bayes' = FALSE
        /\ phish' = FALSE /\ hit' = FALSE /\ isSpam' = FALSE
    BY <1>3 DEF Classify, Unasked
  <2>2. m # NoMail
    BY MailKnown
  <2> QED
    BY <2>1, <2>2 DEF JobTypeOK, Step
<1>4. CASE AskBayes
  <2>1. Likely(mail, Loaded[mail.user]) \in BOOLEAN
    BY DEF Likely
  <2> QED
    BY <1>4, <2>1 DEF AskBayes, DetectorsInv, JobTypeOK, Step
<1>5. CASE AskWatchList
  <2>1. OnWatchList(mail) \in BOOLEAN
    BY DEF OnWatchList
  <2> QED
    BY <1>5, <2>1 DEF AskWatchList, DetectorsInv, JobTypeOK, Step
<1>6. ASSUME NEW host \in links, LookUp(host)
      PROVE  JobTypeOK'
  <2>1. (hit \/ InFeeds(host)) \in BOOLEAN
    OBVIOUS
  <2> QED
    BY <1>6, <2>1 DEF LookUp, DetectorsInv, JobTypeOK
<1>7. CASE Analyzed
  <2>1. Phishing(mail, hit) \in BOOLEAN
    BY DEF Phishing
  <2> QED
    BY <1>7, <2>1 DEF Analyzed, DetectorsInv, JobTypeOK, Step
<1>8. CASE AskSimilarity
  BY <1>8 DEF AskSimilarity, DetectorsInv, JobTypeOK, Step
<1> QED
  BY <1>1, <1>2, <1>3, <1>4, <1>5, <1>6, <1>7, <1>8, JobSteps

LEMMA DetectorsInitially ==
  ASSUME ClassificationInit
  PROVE  DetectorsInv
<1>1. FeedInv
  BY FeedsInitially
<1>2. CountInv /\ signatures \in Seq(Mails)
  BY DEF ClassificationInit, SimilarityInit, CountInv
<1>3. JobTypeOK
  <2>1. /\ mail = NoMail /\ step = "idle" /\ links = {} /\ bayes = FALSE
        /\ phish = FALSE /\ hit = FALSE /\ isSpam = FALSE
    BY DEF ClassificationInit
  <2> QED
    BY <2>1 DEF JobTypeOK, Step
<1> QED
  BY <1>1, <1>2, <1>3 DEF DetectorsInv

LEMMA DetectorsStep ==
  ASSUME DetectorsInv, [ClassificationNext]_allVars
  PROVE  DetectorsInv'
<1>1. CASE ClassificationNext
  BY <1>1, FeedStep, CountStep, SignaturesStep, JobStep DEF DetectorsInv
<1>2. CASE UNCHANGED allVars
  BY <1>2 DEF allVars, phishing, refresh, similarity, job, DetectorsInv, FeedInv,
         PhishingTypeOK, NothingSkipped, CountInv, JobTypeOK
<1> QED
  BY <1>1, <1>2

(* The tables, the counters and every step of a classification keep their   *)
(* types for any number of accounts and threads, whatever the token file    *)
(* holds at the moment it is loaded, and no text is counted more often than *)
(* reported (pipeline.py, _classify).                                      *)
THEOREM DetectorsTyped == ClassificationSpec => []DetectorsTypeOK
<1>1. DetectorsInv => DetectorsTypeOK
  BY DEF DetectorsInv, FeedInv, CountInv, JobTypeOK, DetectorsTypeOK, SimilarityTypeOK
<1> QED
  BY <1>1, DetectorsInitially, DetectorsStep, PTL DEF ClassificationSpec

-----------------------------------------------------------------------------
(* Nothing missed.  How the evidence held since the beginning shows in what *)
(* the detectors asked so far have said: first that of feeds and reports,   *)
(* whatever becomes of the token file, ...                                 *)
ReportsFollowed == step = "done" /\ {"link", "fraud", "copy"} \cap held # {} => isSpam

Followed ==
  /\ step \in {"bayes", "watch", "links", "similar"} => held \subseteq Evidence(mail)
  /\ step \in {"bayes", "watch"} => links = mail.links
  /\ step = "links" => "fraud" \notin held
  /\ step = "links" /\ "link" \in held => hit \/ \E host \in links : InFeeds(host)
  /\ step = "similar" /\ {"fraud", "link"} \cap held # {} => phish
  /\ step = "done" => held \subseteq {"words", "link", "fraud", "copy"}
  /\ ReportsFollowed

MissInv == DetectorsInv /\ Followed

LEMMA QuietKeeps ==
  ASSUME Quiet, mail' = mail
  PROVE  Evidence(mail)' = Evidence(mail) /\ Grounds(mail)' = Grounds(mail)
BY DEF Quiet, vars, phishing, refresh, similarity, Evidence, Grounds, WordsAgainst,
       LinkListed, FraudReported, SpamOf

(* The feeds only add.                                                     *)
LEMMA ListedGrows ==
  ASSUME ClassificationNext
  PROVE  listed \subseteq listed'
BY PhishingSteps
   DEF phishing, refresh, StartRound, ForgetRound, Fetch, Store, StoreFails, ReportFraud

(* History within a classification.                                        *)
LEMMA Tracked ==
  ASSUME ClassificationNext, step \in {"bayes", "watch", "links", "similar"}, step' # "idle"
  PROVE  held' = held \cap Evidence(mail)' /\ arisen' = (arisen \/ Grounds(mail)')
BY DEF ClassificationNext, Track

(* Whatever the others do while it waits.                                   *)
LEMMA WaitingFollows ==
  ASSUME MissInv, ClassificationNext, UNCHANGED job
  PROVE  Followed'
<1>1. /\ mail' = mail /\ step' = step /\ bayes' = bayes /\ phish' = phish
      /\ links' = links /\ hit' = hit /\ isSpam' = isSpam
  BY DEF job
<1>2. CASE step = "idle"
  BY <1>1, <1>2 DEF Followed, ReportsFollowed
<1>3. CASE step = "done"
  <2>1. held' = held
    BY <1>1, <1>3 DEF ClassificationNext, Track
  <2> QED
    BY <1>1, <1>3, <2>1 DEF MissInv, Followed, ReportsFollowed
<1>4. CASE step \in {"bayes", "watch", "links", "similar"}
  <2>1. held' \subseteq held /\ held' \subseteq Evidence(mail)'
    BY <1>1, <1>4, Tracked
  <2>2. \A host \in links : InFeeds(host) => InFeeds(host)'
    BY ListedGrows DEF InFeeds
  <2> QED
    BY <1>1, <1>4, <2>1, <2>2 DEF MissInv, Followed, ReportsFollowed
<1> QED
  BY <1>2, <1>3, <1>4 DEF MissInv, DetectorsInv, JobTypeOK, Step

(* Evidence before a detector is asked is evidence after.                   *)
LEMMA AskedHeld ==
  ASSUME MissInv, ClassificationNext, Quiet, mail' = mail,
         step \in {"bayes", "watch", "links", "similar"}, step' # "idle"
  PROVE  held' \subseteq held /\ held' \subseteq Evidence(mail) /\ held' \subseteq Evidence(mail)'
BY Tracked, QuietKeeps

LEMMA BayesFollows ==
  ASSUME MissInv, ClassificationNext, Quiet, AskBayes
  PROVE  Followed'
<1>1. step = "bayes" /\ step' = "watch" /\ mail' = mail /\ links' = links
  BY DEF AskBayes
<1>2. held' \subseteq Evidence(mail)'
  BY <1>1, AskedHeld
<1>3. links' = mail'.links
  BY <1>1 DEF MissInv, Followed
<1> QED
  BY <1>1, <1>2, <1>3 DEF Followed, ReportsFollowed

LEMMA WatchListFollows ==
  ASSUME MissInv, ClassificationNext, Quiet, AskWatchList
  PROVE  Followed'
<1>1. /\ step = "watch" /\ phish' = OnWatchList(mail) /\ mail' = mail
      /\ links' = links
      /\ step' = IF OnWatchList(mail) THEN "similar" ELSE "links"
  BY DEF AskWatchList
<1>2. held' \subseteq held /\ held' \subseteq Evidence(mail) /\ held' \subseteq Evidence(mail)'
  BY <1>1, AskedHeld
<1>3. "fraud" \in held' => OnWatchList(mail)
  BY <1>2 DEF Evidence, FraudReported, OnWatchList
<1>4. "link" \in held' => \E host \in links : InFeeds(host)
  BY <1>1, <1>2 DEF MissInv, Followed, Evidence, LinkListed, InFeeds
<1>5. \A host \in links : InFeeds(host) => InFeeds(host)'
  BY ListedGrows DEF InFeeds
<1>6. CASE OnWatchList(mail)
  BY <1>1, <1>2, <1>6 DEF Followed, ReportsFollowed
<1>7. CASE ~ OnWatchList(mail)
  BY <1>1, <1>2, <1>3, <1>4, <1>5, <1>7 DEF Followed, ReportsFollowed
<1> QED
  BY <1>6, <1>7

LEMMA LookUpFollows ==
  ASSUME MissInv, ClassificationNext, Quiet, NEW host \in links, LookUp(host)
  PROVE  Followed'
<1>1. /\ step = "links" /\ step' = step /\ hit' = (hit \/ InFeeds(host))
      /\ links' = links \ {host} /\ mail' = mail
  BY DEF LookUp
<1>2. held' \subseteq held /\ held' \subseteq Evidence(mail)'
  BY <1>1, AskedHeld
<1>3. \A h \in links : InFeeds(h) => InFeeds(h)'
  BY ListedGrows DEF InFeeds
<1>4. "link" \in held' => hit' \/ \E h \in links' : InFeeds(h)'
  BY <1>1, <1>2, <1>3 DEF MissInv, Followed
<1>5. "fraud" \notin held'
  BY <1>1, <1>2 DEF MissInv, Followed
<1> QED
  BY <1>1, <1>2, <1>4, <1>5 DEF Followed, ReportsFollowed

LEMMA AnalyzedFollows ==
  ASSUME MissInv, ClassificationNext, Quiet, Analyzed
  PROVE  Followed'
<1>1. /\ step = "links" /\ step' = "similar" /\ links = {} /\ phish' = Phishing(mail, hit)
      /\ mail' = mail
  BY DEF Analyzed
<1>2. held' \subseteq held /\ held' \subseteq Evidence(mail)'
  BY <1>1, AskedHeld
<1>3. "link" \in held' => hit
  BY <1>1, <1>2 DEF MissInv, Followed
<1>4. hit => Phishing(mail, hit)
  BY DEF Phishing, Heuristics
<1>5. "fraud" \notin held'
  BY <1>1, <1>2 DEF MissInv, Followed
<1> QED
  BY <1>1, <1>2, <1>3, <1>4, <1>5 DEF Followed, ReportsFollowed

LEMMA VerdictFollows ==
  ASSUME MissInv, ClassificationNext, Quiet, AskSimilarity
  PROVE  Followed'
<1>1. /\ step = "similar" /\ step' = "done" /\ mail' = mail
      /\ isSpam' = (bayes \/ SimilarityScore(mail) >= Threshold \/ phish)
  BY DEF AskSimilarity
<1>2. mail \in Mails /\ signatures \in Seq(Mails)
  BY <1>1 DEF MissInv, DetectorsInv, JobTypeOK
<1>3. held' \subseteq held /\ held' \subseteq Evidence(mail)
  BY <1>1, AskedHeld
<1>4. {"fraud", "link"} \cap held' # {} => phish
  BY <1>1, <1>3 DEF MissInv, Followed
<1>5. "copy" \in held' => SimilarityScore(mail) >= Threshold
  <2> SUFFICES ASSUME "copy" \in held'
               PROVE  SimilarityScore(mail) >= Threshold
    OBVIOUS
  <2>1. "copy" \in Evidence(mail)
    BY <1>3
  <2>2. SimilarityScore(mail) = Scale
    BY <1>2, <2>1, CopyIsFound DEF Evidence
  <2>3. Scale >= Threshold
    BY ClassificationAssumption DEF Scale
  <2> QED
    BY <2>2, <2>3
<1>6. held' \subseteq {"words", "link", "fraud", "copy"}
  BY <1>3 DEF Evidence
<1>7. {"link", "fraud", "copy"} \cap held' # {} => isSpam'
  BY <1>1, <1>4, <1>5
<1> QED
  BY <1>1, <1>6, <1>7 DEF Followed, ReportsFollowed

LEMMA FollowedStep ==
  ASSUME MissInv, ClassificationNext
  PROVE  Followed'
<1>1. CASE Restart
  <2>1. step' = "idle"
    BY <1>1 DEF Restart
  <2> QED
    BY <2>1 DEF Followed, ReportsFollowed
<1>2. ASSUME NEW m \in Mails, Classify(m)
      PROVE  Followed'
  <2>1. step' = "bayes" /\ mail' = m /\ links' = m.links /\ held' = Evidence(mail)'
    BY <1>2 DEF Classify, ClassificationNext, Track
  <2> QED
    BY <2>1 DEF Followed, ReportsFollowed
<1> QED
  BY <1>1, <1>2, JobSteps, WaitingFollows, BayesFollows, WatchListFollows, LookUpFollows,
     AnalyzedFollows, VerdictFollows

LEMMA MissStep ==
  ASSUME MissInv, [ClassificationNext]_allVars
  PROVE  MissInv'
<1>1. CASE ClassificationNext
  BY <1>1, DetectorsStep, FollowedStep DEF MissInv
<1>2. CASE UNCHANGED allVars
  <2>1. DetectorsInv'
    BY <1>2, DetectorsStep DEF MissInv
  <2>2. Quiet /\ UNCHANGED job /\ UNCHANGED held
    BY <1>2 DEF allVars, Quiet
  <2>3. Evidence(mail)' = Evidence(mail)
    BY <2>2, QuietKeeps DEF job
  <2>4. \A host \in links : InFeeds(host)' = InFeeds(host)
    BY <2>2 DEF Quiet, phishing, refresh, InFeeds
  <2> QED
    BY <2>1, <2>2, <2>3, <2>4 DEF MissInv, job, Followed, ReportsFollowed
<1> QED
  BY <1>1, <1>2

LEMMA MissInitially ==
  ASSUME ClassificationInit
  PROVE  MissInv
<1>1. DetectorsInv
  BY DetectorsInitially
<1> QED
  BY <1>1 DEF ClassificationInit, MissInv, Followed, ReportsFollowed

(* A message with a listed link, from a reported sender or a copy of what   *)
(* was reported is flagged if it was so all through its classification,     *)
(* for every interleaving of the detectors with feeds, reports, removals    *)
(* and restarts, any number of accounts that train at once and whatever     *)
(* that does to their file (pipeline.py, _classify).                        *)
THEOREM ReportsAreFollowed == ClassificationSpec => []ReportsFollowed
<1>1. MissInv => ReportsFollowed
  BY DEF MissInv, Followed
<1> QED
  BY <1>1, MissInitially, MissStep, PTL DEF ClassificationSpec

(* ... then that of training, which needs a file that forgets nothing,      *)
(* hence one lock: what was taught must still be there when the classifier  *)
(* loads it.                                                               *)
Taught ==
  "words" \in held =>
    /\ step \in {"watch", "links", "similar"} => bayes
    /\ step = "done" => isSpam

TaughtInv == IInv /\ MissInv /\ Taught

LEMMA ScoreFollows ==
  ASSUME IInv, NEW m \in Mails
  PROVE  Likely(m, Loaded[m.user]) <=> WordsAgainst(m)
BY LoadedIsDone DEF WordsAgainst

LEMMA TaughtStep ==
  ASSUME TaughtInv, ClassificationNext
  PROVE  Taught'
<1>1. CASE UNCHANGED job
  <2>1. step' = step /\ bayes' = bayes /\ isSpam' = isSpam
    BY <1>1 DEF job
  <2>2. CASE step = "idle"
    BY <2>1, <2>2 DEF Taught
  <2>3. CASE step = "done"
    <3>1. held' = held
      BY <2>1, <2>3 DEF ClassificationNext, Track
    <3> QED
      BY <2>1, <2>3, <3>1 DEF TaughtInv, Taught
  <2>4. CASE step \in {"bayes", "watch", "links", "similar"}
    <3>1. held' \subseteq held
      BY <2>1, <2>4, Tracked
    <3> QED
      BY <2>1, <2>4, <3>1 DEF TaughtInv, Taught
  <2> QED
    BY <2>2, <2>3, <2>4 DEF TaughtInv, MissInv, DetectorsInv, JobTypeOK, Step
<1>2. CASE Restart
  BY <1>2 DEF Restart, Taught
<1>3. ASSUME NEW m \in Mails, Classify(m)
      PROVE  Taught'
  BY <1>3 DEF Classify, Taught
<1>4. CASE Quiet /\ AskBayes
  <2>1. step = "bayes" /\ step' = "watch" /\ bayes' = Likely(mail, Loaded[mail.user]) /\ mail' = mail
    BY <1>4 DEF AskBayes
  <2>2. mail \in Mails
    BY <2>1 DEF TaughtInv, MissInv, DetectorsInv, JobTypeOK
  <2>3. held' \subseteq Evidence(mail)
    BY <1>4, <2>1, AskedHeld DEF TaughtInv
  <2>4. "words" \in held' => bayes'
    BY <2>1, <2>2, <2>3, ScoreFollows DEF TaughtInv, Evidence
  <2> QED
    BY <2>1, <2>4 DEF Taught
<1>5. ASSUME AskWatchList \/ Analyzed \/ \E host \in links : LookUp(host)
      PROVE  Taught'
  <2>1. /\ step \in {"watch", "links"} /\ step' \in {"links", "similar"} /\ bayes' = bayes
    BY <1>5 DEF AskWatchList, Analyzed, LookUp
  <2>2. held' \subseteq held
    BY <2>1, Tracked
  <2> QED
    BY <2>1, <2>2 DEF TaughtInv, Taught
<1>6. CASE AskSimilarity
  <2>1. /\ step = "similar" /\ step' = "done"
        /\ isSpam' = (bayes \/ SimilarityScore(mail) >= Threshold \/ phish)
    BY <1>6 DEF AskSimilarity
  <2>2. held' \subseteq held
    BY <2>1, Tracked
  <2>3. "words" \in held' => bayes
    BY <2>1, <2>2 DEF TaughtInv, Taught
  <2>4. "words" \in held' => isSpam'
    BY <2>1, <2>3
  <2> QED
    BY <2>1, <2>4 DEF Taught
<1> QED
  BY <1>1, <1>2, <1>3, <1>4, <1>5, <1>6, JobSteps

LEMMA TaughtInvStep ==
  ASSUME OneLock, TaughtInv, [ClassificationNext]_allVars
  PROVE  TaughtInv'
<1>1. MissInv'
  BY MissStep DEF TaughtInv
<1>2. CASE ClassificationNext
  BY <1>1, <1>2, TokenSteps, Inductive, TaughtStep DEF TaughtInv
<1>3. CASE UNCHANGED allVars
  <2>1. IInv'
    BY <1>3, Inductive DEF allVars, TaughtInv
  <2> QED
    BY <1>1, <1>3, <2>1 DEF TaughtInv, allVars, job, Taught
<1> QED
  BY <1>2, <1>3

(* With one account trained, a message against which the same thing speaks  *)
(* all through its classification is flagged, for every interleaving of the *)
(* detectors with training, feeds, reports and removals (pipeline.py,       *)
(* _classify).                                                             *)
THEOREM OneAccountMissesNothing ==
  ASSUME OneLock
  PROVE  ClassificationSpec => []NothingMissed
<1>1. ClassificationInit => TaughtInv
  <2> SUFFICES ASSUME ClassificationInit
               PROVE  TaughtInv
    OBVIOUS
  <2>1. IInv /\ MissInv
    BY Initially, MissInitially DEF ClassificationInit
  <2> QED
    BY <2>1 DEF ClassificationInit, TaughtInv, Taught
<1>2. TaughtInv /\ [ClassificationNext]_allVars => TaughtInv'
  BY TaughtInvStep
<1>3. TaughtInv => NothingMissed
  BY DEF TaughtInv, MissInv, Followed, ReportsFollowed, Taught, NothingMissed
<1> QED
  BY <1>1, <1>2, <1>3, PTL DEF ClassificationSpec

-----------------------------------------------------------------------------
(* No false alarm, if no hashes collide.                                   *)

(* A verdict so far has a reason, in what was known when the       *)
(* detector was asked.                                                     *)
Founded ==
  /\ arisen \in BOOLEAN
  /\ step # "idle" /\ (bayes \/ hit \/ phish \/ isSpam) => arisen

AlarmInv == IInv /\ DetectorsInv /\ Founded

LEMMA WaitingFounded ==
  ASSUME AlarmInv, ClassificationNext, UNCHANGED job
  PROVE  Founded'
<1>1. /\ step' = step /\ bayes' = bayes /\ phish' = phish /\ hit' = hit /\ isSpam' = isSpam
  BY DEF job
<1>2. CASE step = "idle"
  <2>1. arisen' = FALSE
    BY <1>1, <1>2 DEF ClassificationNext, Track
  <2> QED
    BY <1>1, <1>2, <2>1 DEF Founded
<1>3. CASE step = "done"
  <2>1. arisen' = arisen
    BY <1>1, <1>3 DEF ClassificationNext, Track
  <2> QED
    BY <1>1, <2>1 DEF AlarmInv, Founded
<1>4. CASE step \in {"bayes", "watch", "links", "similar"}
  <2>1. arisen' = (arisen \/ Grounds(mail)')
    BY <1>1, <1>4, Tracked
  <2>2. arisen' \in BOOLEAN /\ (arisen => arisen')
    BY <2>1
  <2> QED
    BY <1>1, <2>2 DEF AlarmInv, Founded
<1> QED
  BY <1>2, <1>3, <1>4 DEF AlarmInv, DetectorsInv, JobTypeOK, Step

(* Grounds when a detector is asked are remembered.                         *)
LEMMA AskedGrounds ==
  ASSUME ClassificationNext, Quiet, mail' = mail,
         step \in {"bayes", "watch", "links", "similar"}, step' # "idle"
  PROVE  arisen' \in BOOLEAN /\ (arisen \/ Grounds(mail) => arisen')
<1>1. arisen' = (arisen \/ Grounds(mail)') /\ Grounds(mail)' = Grounds(mail)
  BY Tracked, QuietKeeps
<1> QED
  BY <1>1

LEMMA BayesFounded ==
  ASSUME AlarmInv, ClassificationNext, Quiet, AskBayes
  PROVE  Founded'
<1>1. /\ step = "bayes" /\ step' = "watch" /\ mail' = mail
      /\ bayes' = Likely(mail, Loaded[mail.user])
      /\ phish' = phish /\ hit' = hit /\ isSpam' = isSpam
  BY DEF AskBayes
<1>2. mail \in Mails
  BY <1>1 DEF AlarmInv, DetectorsInv, JobTypeOK
<1>3. arisen' \in BOOLEAN /\ (arisen \/ Grounds(mail) => arisen')
  BY <1>1, AskedGrounds
<1>4. bayes' => Grounds(mail)
  BY <1>1, <1>2, ScoreFollows DEF AlarmInv, Grounds
<1>5. hit \/ phish \/ isSpam => arisen
  BY <1>1 DEF AlarmInv, Founded
<1> QED
  BY <1>1, <1>3, <1>4, <1>5 DEF Founded

LEMMA WatchListFounded ==
  ASSUME AlarmInv, ClassificationNext, Quiet, AskWatchList
  PROVE  Founded'
<1>1. /\ step = "watch" /\ step' \in {"similar", "links"} /\ mail' = mail
      /\ phish' = OnWatchList(mail)
      /\ bayes' = bayes /\ hit' = hit /\ isSpam' = isSpam
  BY DEF AskWatchList
<1>2. arisen' \in BOOLEAN /\ (arisen \/ Grounds(mail) => arisen')
  BY <1>1, AskedGrounds
<1>3. phish' => Grounds(mail)
  BY <1>1 DEF OnWatchList, Grounds, FraudReported
<1>4. bayes \/ hit \/ isSpam => arisen
  BY <1>1 DEF AlarmInv, Founded
<1> QED
  BY <1>1, <1>2, <1>3, <1>4 DEF Founded

LEMMA LookUpFounded ==
  ASSUME AlarmInv, ClassificationNext, Quiet, NEW host \in links, LookUp(host)
  PROVE  Founded'
<1>1. /\ step = "links" /\ step' = step /\ hit' = (hit \/ InFeeds(host)) /\ mail' = mail
      /\ bayes' = bayes /\ phish' = phish /\ isSpam' = isSpam
  BY DEF LookUp
<1>2. host \in mail.links
  BY <1>1 DEF AlarmInv, DetectorsInv, JobTypeOK
<1>3. arisen' \in BOOLEAN /\ (arisen \/ Grounds(mail) => arisen')
  BY <1>1, AskedGrounds
<1>4. InFeeds(host) => Grounds(mail)
  BY <1>2 DEF InFeeds, Grounds, LinkListed
<1>5. bayes \/ hit \/ phish \/ isSpam => arisen
  BY <1>1 DEF AlarmInv, Founded
<1> QED
  BY <1>1, <1>3, <1>4, <1>5 DEF Founded

LEMMA AnalyzedFounded ==
  ASSUME AlarmInv, ClassificationNext, Quiet, Analyzed
  PROVE  Founded'
<1>1. /\ step = "links" /\ step' = "similar" /\ mail' = mail
      /\ phish' = Phishing(mail, hit)
      /\ bayes' = bayes /\ hit' = hit /\ isSpam' = isSpam
  BY DEF Analyzed
<1>2. arisen' \in BOOLEAN /\ (arisen \/ Grounds(mail) => arisen')
  BY <1>1, AskedGrounds
(* Neither brand rule is enough without a listed link.                     *)
<1>3. phish' => hit
  <2>1. Phishing(mail, hit) => hit
    BY DEF Phishing, Heuristics
  <2> QED
    BY <1>1, <2>1
<1>4. bayes \/ hit \/ isSpam => arisen
  BY <1>1 DEF AlarmInv, Founded
<1> QED
  BY <1>1, <1>2, <1>3, <1>4 DEF Founded

LEMMA VerdictFounded ==
  ASSUME AlarmInv, NoCollision, ClassificationNext, Quiet, AskSimilarity
  PROVE  Founded'
<1>1. /\ step = "similar" /\ step' = "done" /\ mail' = mail
      /\ isSpam' = (bayes \/ SimilarityScore(mail) >= Threshold \/ phish)
      /\ bayes' = bayes /\ phish' = phish /\ hit' = hit
  BY DEF AskSimilarity
<1>2. mail \in Mails /\ signatures \in Seq(Mails)
  BY <1>1 DEF AlarmInv, DetectorsInv, JobTypeOK
<1>3. arisen' \in BOOLEAN /\ (arisen \/ Grounds(mail) => arisen')
  BY <1>1, AskedGrounds
<1>4. SimilarityScore(mail) >= Threshold => Grounds(mail)
  <2> SUFFICES ASSUME SimilarityScore(mail) >= Threshold
               PROVE  Grounds(mail)
    OBVIOUS
  <2>1. SimilarityScore(mail) # 0
    BY ClassificationAssumption
  <2> QED
    BY <1>2, <2>1, ScoreReason DEF Grounds
<1>5. bayes \/ hit \/ phish => arisen
  BY <1>1 DEF AlarmInv, Founded
<1> QED
  BY <1>1, <1>3, <1>4, <1>5 DEF Founded

LEMMA FoundedStep ==
  ASSUME AlarmInv, NoCollision, ClassificationNext
  PROVE  Founded'
<1>1. CASE Restart
  <2>1. step' = "idle" /\ arisen' = FALSE
    BY <1>1 DEF Restart, ClassificationNext, Track
  <2> QED
    BY <2>1 DEF Founded
<1>2. ASSUME NEW m \in Mails, Classify(m)
      PROVE  Founded'
  <2>1. /\ step' = "bayes" /\ arisen' = Grounds(mail)'
        /\ bayes' = FALSE /\ phish' = FALSE /\ hit' = FALSE /\ isSpam' = FALSE
    BY <1>2 DEF Classify, Unasked, ClassificationNext, Track
  <2>2. Grounds(mail)' \in BOOLEAN
    BY DEF Grounds
  <2> QED
    BY <2>1, <2>2 DEF Founded
<1> QED
  BY <1>1, <1>2, JobSteps, WaitingFounded, BayesFounded, WatchListFounded, LookUpFounded,
     AnalyzedFounded, VerdictFounded

(* With one account trained and no colliding hashes, a message is flagged   *)
(* only with a reason that was there during its classification: no          *)
(* interleaving of the detectors with the others makes one up, the brand    *)
(* heuristics never suffice, and reports of other accounts do not count     *)
(* (pipeline.py, _classify).                                               *)
THEOREM OneAccountNoFalseAlarm ==
  ASSUME OneLock, NoCollision
  PROVE  ClassificationSpec => []NoFalseAlarm
<1>1. ClassificationInit => AlarmInv
  <2> SUFFICES ASSUME ClassificationInit
               PROVE  AlarmInv
    OBVIOUS
  <2>1. IInv /\ DetectorsInv
    BY Initially, DetectorsInitially DEF ClassificationInit
  <2> QED
    BY <2>1 DEF ClassificationInit, AlarmInv, Founded
<1>2. AlarmInv /\ [ClassificationNext]_allVars => AlarmInv'
  <2>1. CASE ClassificationNext
    BY <2>1, TokenSteps, Inductive, DetectorsStep, FoundedStep DEF AlarmInv
  <2>2. CASE UNCHANGED allVars
    BY <2>2, Inductive, DetectorsStep DEF allVars, job, AlarmInv, Founded
  <2> QED
    BY <2>1, <2>2
<1>3. AlarmInv => NoFalseAlarm
  BY DEF AlarmInv, Founded, NoFalseAlarm
<1> QED
  BY <1>1, <1>2, <1>3, PTL DEF ClassificationSpec

=============================================================================
