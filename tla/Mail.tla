-------------------------------- MODULE Mail --------------------------------
(***************************************************************************)
(* A parsed message, as far as the three detectors of mailwatch/pipeline.py *)
(* tell messages apart.  The whole From header and the address in it are    *)
(* parsed separately (_extract_domain, _parse_from_header), and a display   *)
(* name that contains a URL makes them differ.                             *)
(***************************************************************************)
EXTENDS WordCounts, FiniteSets

CONSTANTS
  Users,      \* accounts that are watched
  Hosts,      \* domains of senders and of links
  NoHost,     \* a header without a domain
  Brands,
  OwnHosts,   \* [Brands -> SUBSET Hosts]: the brand's domains and below
  Texts,      \* normalised subject and body
  NoText,     \* the blank one
  Shingles,   \* word pairs
  PairsOf,    \* [Texts -> SUBSET Shingles]
  Mails       \* the messages of an instance

Scale == 10000   \* scores are rounded to four digits

Senders == Hosts \cup {NoHost}

Message ==
  [id: Nat,
   user: Users,
   sender: Senders,              \* domain of the From header
   address: Senders,             \* domain of the address in it
   claims: SUBSET Brands,        \* named in the display name
   mentions: SUBSET Brands,      \* named in subject or body
   links: SUBSET Hosts,          \* domains of the href URLs
   text: Texts,
   words: SUBSET Words]          \* tokens of subject and body

ASSUME MailAssumption ==
  /\ NoHost \notin Hosts
  /\ NoText \in Texts
  /\ OwnHosts \in [Brands -> SUBSET Hosts]
  /\ PairsOf \in [Texts -> SUBSET Shingles]
  /\ Mails \subseteq Message

(* round(part / whole, 4), as an integer.                                  *)
Round(part, whole) == (2 * Scale * part + whole) \div (2 * whole)
=============================================================================
