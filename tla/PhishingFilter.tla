--------------------------- MODULE PhishingFilter ---------------------------
(***************************************************************************)
(* mailwatch/email/filters/phishing.py: the heuristics on a message, the    *)
(* watch list of domains an account reported, and the table of phishing     *)
(* domains with the refresh that the feed loop of watcher.py runs.  Each    *)
(* INSERT commits alone; rows are replaced, and never deleted.             *)
(***************************************************************************)
EXTENDS Mail

CONSTANTS
  Feeds,    \* OpenPhish, PhishTank, PhishStats
  Offers    \* what they may publish: sets of rows <<domain, source>>

ASSUME FeedsAssumption == Offers \subseteq SUBSET (Hosts \X Feeds)

VARIABLES
  listed,     \* phishing_feeds: rows <<domain, source>>
  watched,    \* phishing_domains: rows <<domain, account>>
  offer,      \* history: rows the feeds offer in the present round
  todo,       \* update_all: feeds still to fetch
  rows,       \* _process_feed: rows still to insert
  unstored    \* history: rows whose INSERT failed in this round

refresh == <<listed, offer, todo, rows, unstored>>
phishing == <<refresh, watched>>

RowsOf(f) == offer \cap (Hosts \X {f})

PhishingInit ==
  /\ listed = {} /\ watched = {}
  /\ offer = {}
  /\ todo = {} /\ rows = {} /\ unstored = {}

-----------------------------------------------------------------------------
(* The feed loop.                                                          *)

(* Every feed_refresh_hours.  A feed that is down, or whose answer cannot be *)
(* parsed, offers nothing.                                                 *)
StartRound ==
  /\ todo = {} /\ rows = {}
  /\ offer' \in Offers
  /\ todo' = Feeds
  /\ unstored' = {}
  /\ UNCHANGED <<listed, rows, watched>>

(* Mutant of Fetch: the exception of one feed ends the round.              *)
FetchOrGiveUp(f) ==
  /\ f \in todo /\ rows = {}
  /\ rows' = RowsOf(f)
  /\ todo' = IF RowsOf(f) = {} THEN {} ELSE todo \ {f}
  /\ UNCHANGED <<listed, offer, unstored, watched>>

(* Download, raise_for_status and parse; an exception counts 0 domains.     *)
Fetch(f) ==
  /\ f \in todo /\ rows = {}
  /\ rows' = RowsOf(f)
  /\ todo' = todo \ {f}
  /\ UNCHANGED <<listed, offer, unstored, watched>>

(* INSERT OR REPLACE of a domain...                                        *)
Store(row) ==
  /\ row \in rows
  /\ listed' = listed \cup {row}
  /\ rows' = rows \ {row}
  /\ UNCHANGED <<offer, todo, unstored, watched>>

(* ... whose exception is passed over.                                     *)
StoreFails(row) ==
  /\ row \in rows
  /\ unstored' = unstored \cup {row}
  /\ rows' = rows \ {row}
  /\ UNCHANGED <<listed, offer, todo, watched>>

(* The process dies in the round.                                          *)
ForgetRound ==
  /\ offer' = {}
  /\ todo' = {} /\ rows' = {} /\ unstored' = {}
  /\ UNCHANGED <<listed, watched>>

(* report_fraudulent: INSERT OR IGNORE for the account.  The brand that an  *)
(* UPDATE adds is only shown, and the feedback row is not read.            *)
ReportFraud(m) ==
  /\ m.sender # NoHost
  /\ watched' = watched \cup {<<m.sender, m.user>>}
  /\ UNCHANGED refresh

-----------------------------------------------------------------------------
(* The detector.                                                           *)

(* The display name claims a brand that the address does not belong to.     *)
Spoof(m) == m.address # NoHost /\ \E b \in m.claims : m.address \notin OwnHosts[b]

(* A sender that is no brand's mentions one.                               *)
Mismatch(m) ==
  /\ m.sender # NoHost
  /\ \A b \in Brands : m.sender \notin OwnHosts[b]
  /\ m.mentions # {}

(* In tenths: the second rule counts only without the first.                *)
Heuristics(m) == IF Spoof(m) THEN 4 ELSE IF Mismatch(m) THEN 3 ELSE 0

(* Mutant of OnWatchList: the account is not asked for.                    *)
WatchedByAnyone(m) == \E u \in Users : <<m.sender, u>> \in watched

OnWatchList(m) == m.sender # NoHost /\ <<m.sender, m.user>> \in watched

InFeeds(host) == \E f \in Feeds : <<host, f>> \in listed

(* analyze, of a message off the watch list: 0.9 for a listed link on top   *)
(* of the heuristics; 0.5 is phishing.                                     *)
Phishing(m, hit) == Heuristics(m) + (IF hit THEN 9 ELSE 0) >= 5

-----------------------------------------------------------------------------
(* Properties.                                                             *)

PhishingTypeOK ==
  /\ listed \subseteq Hosts \X Feeds
  /\ watched \subseteq Hosts \X Users
  /\ offer \subseteq Hosts \X Feeds
  /\ todo \subseteq Feeds
  /\ rows \subseteq Hosts \X Feeds
  /\ unstored \subseteq Hosts \X Feeds

(* Between two rounds, the table has every domain that a feed published in  *)
(* the last one, but for those whose own INSERT failed: neither a feed that *)
(* is down nor a row that fails takes another with it.                     *)
RefreshIsComplete ==
  todo = {} /\ rows = {} => offer \subseteq listed \cup unstored

=============================================================================
