-------------------------- MODULE SimilarityFilter --------------------------
(***************************************************************************)
(* mailwatch/email/filters/spam_similarity.py: MinHash signatures of known  *)
(* spam, and counters of identical texts per sender.  Nothing in the daemon *)
(* calls add_spam, remove_message or check_repeated at this commit; they    *)
(* are modelled as calls that a client of the library makes one after the   *)
(* other for each account.                                                 *)
(***************************************************************************)
EXTENDS Mail, Sequences, FiniteSetsExt

CONSTANTS
  Perms,          \* permutations of a signature: 128
  Mix,            \* [Perms -> [Shingles -> Nat]]: the mixed hash
  Limit,          \* signatures a message is compared with: 100
  SameSenderMax   \* reports of a text that make its sender a harasser: 3

ASSUME SimilarityAssumption ==
  /\ IsFiniteSet(Perms) /\ Perms # {}
  /\ Mix \in [Perms -> [Shingles -> Nat]]
  /\ Limit \in Nat /\ SameSenderMax \in Nat

VARIABLES
  signatures,   \* spam_signatures, newest first, as messages
  counted,      \* spam_content_hashes: [Content -> occurrence_count], 0: no row
  adding,       \* messages between the two halves of add_spam
  reported      \* history: [Content -> reports]

similarity == <<signatures, counted, adding, reported>>

Content == Users \X Texts \X Senders
ContentOf(m) == <<m.user, m.text, m.sender>>
DiffSenderMin == 2

SimilarityInit ==
  /\ signatures = << >>
  /\ counted = [c \in Content |-> 0]
  /\ adding = {}
  /\ reported = [c \in Content |-> 0]

(* DELETE of a message's row; message_uuid is the primary key.              *)
Without(s, m) ==
  LET at == CHOOSE i \in 1..Len(s) : s[i] = m
  IN  IF \E i \in 1..Len(s) : s[i] = m
        THEN SubSeq(s, 1, at - 1) \o SubSeq(s, at + 1, Len(s))
        ELSE s

(* add_spam: INSERT OR REPLACE of the signature, dated now...              *)
AddSignature(m) ==
  /\ m.text # NoText
  /\ \A n \in adding : n.user # m.user
  /\ signatures' = <<m>> \o Without(signatures, m)
  /\ adding' = adding \cup {m}
  /\ reported' = [reported EXCEPT ![ContentOf(m)] = @ + 1]
  /\ UNCHANGED counted

(* Mutant of CountText: the text counts for every account.                 *)
CountForAll(m) ==
  /\ m \in adding
  /\ counted' = [c \in Content |->
       IF c[2] = m.text /\ c[3] = m.sender THEN counted[c] + 1 ELSE counted[c]]
  /\ adding' = adding \ {m}
  /\ UNCHANGED <<signatures, reported>>

(* ... then UPDATE of its text's counter, or INSERT with 1.                *)
CountText(m) ==
  /\ m \in adding
  /\ counted' = [counted EXCEPT ![ContentOf(m)] = @ + 1]
  /\ adding' = adding \ {m}
  /\ UNCHANGED <<signatures, reported>>

(* A false positive: the signature goes, the counter stays.                *)
RemoveMessage(m) ==
  /\ \A n \in adding : n.user # m.user
  /\ signatures' = Without(signatures, m)
  /\ signatures' # signatures
  /\ UNCHANGED <<counted, adding, reported>>

(* The process dies in an add_spam.                                        *)
ForgetAdding ==
  /\ adding' = {}
  /\ UNCHANGED <<signatures, counted, reported>>

-----------------------------------------------------------------------------
(* Per permutation, the least hash; all zero without a shingle.            *)
Signature(text) ==
  [p \in Perms |->
    IF PairsOf[text] = {} THEN 0 ELSE Min({Mix[p][s] : s \in PairsOf[text]})]

(* _jaccard_from_bytes, times the number of permutations.                  *)
Equal(text, other) ==
  Cardinality({p \in Perms : Signature(text)[p] = Signature(other)[p]})

IsNear(n) == 10 * n >= 7 * Cardinality(Perms)

(* The newest signatures of the account, as places in the table.            *)
Recent(user) ==
  {i \in 1..Len(signatures) :
     /\ signatures[i].user = user
     /\ Cardinality({j \in 1..(i - 1) : signatures[j].user = user}) < Limit}

(* check_similarity: the best score, or that of the first near duplicate.   *)
SimilarityScore(m) ==
  LET known == Recent(m.user)
      score == [i \in known |-> Equal(m.text, signatures[i].text)]
      near == {i \in known : IsNear(score[i])}
      best == IF near # {} THEN score[Min(near)]
              ELSE Max({0} \cup {score[i] : i \in known})
  IN  IF m.text = NoText THEN 0 ELSE Round(best, Cardinality(Perms))

(* check_repeated: one sender's text reported too often, or several's.      *)
Harassing(count, m) == m.sender # NoHost /\ count[ContentOf(m)] >= SameSenderMax

Campaign(count, m) ==
  Cardinality({h \in Senders : count[<<m.user, m.text, h>>] > 0}) >= DiffSenderMin

Repeated(m) == m.text # NoText /\ (Harassing(counted, m) \/ Campaign(counted, m))

-----------------------------------------------------------------------------
(* Properties.                                                             *)

SimilarityTypeOK ==
  /\ signatures \in Seq(Mails)
  /\ counted \in [Content -> Nat]
  /\ adding \subseteq Mails
  /\ reported \in [Content -> Nat]
  /\ \A c \in Content : counted[c] <= reported[c]

(* A text is taken for repeated only if this very account reported it often *)
(* enough, from the sender or from several, whatever other accounts do and  *)
(* whenever the process dies.                                              *)
RepeatedIsReported ==
  \A m \in Mails : Repeated(m) => Harassing(reported, m) \/ Campaign(reported, m)

=============================================================================
