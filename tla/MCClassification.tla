-------------------------- MODULE MCClassification --------------------------
(* An instance of Classification for TLC: two accounts that receive the same *)
(* offer, and a message in a brand's name with a link; ann trains.          *)
EXTENDS Classification, TLC

CONSTANTS ann, bob, idle, loop, i1, i2, evil, shop, brand, f1, f2,
          offer1, notice, buyNow, nowCheap, newTerms, buy, now, terms

TwoAccounts == {ann, bob}
Threads == {idle, loop}
AnnTrains == [w \in Threads |-> ann]
TwoInodes == {i1, i2}
TwoHosts == {evil, shop}
OneBrand == {brand}
ShopOfBrand == [b \in OneBrand |-> {shop}]
TwoFeeds == {f1, f2}
Published ==
  {x \cup y : x \in {{}, {<<evil, f1>>}, {<<evil, f1>>, <<shop, f1>>}}, y \in {{}, {<<evil, f2>>}}}
SomeTexts == {offer1, notice, NoText}
SomePairs == {buyNow, nowCheap, newTerms}
PairsIn == (offer1 :> {buyNow, nowCheap}) @@ (notice :> {nowCheap, newTerms}) @@ (NoText :> {})
TwoPerms == 1..2
Hashes == <<(buyNow :> 1) @@ (nowCheap :> 2) @@ (newTerms :> 3),
            (buyNow :> 3) @@ (nowCheap :> 1) @@ (newTerms :> 2)>>

TwoLabels == {[words |-> {buy, now}, as |-> "spam"], [words |-> {now, terms}, as |-> "ham"]}
ThreeWords == {buy, now, terms}
Seeds == (buy :> <<6, 10>>) @@ (now :> <<6, 10>>) @@ (terms :> NoSeed)

(* _chi2_score of one fraction and of the pairs that two reports lead to,   *)
(* in ten thousandths.                                                     *)
Pairs ==
  (<<6000, 6000>> :> 6373) @@ (<<6000, 4667>> :> 5468) @@ (<<6000, 2500>> :> 3867) @@
  (<<6333, 6333>> :> 6817) @@ (<<6333, 5000>> :> 5932) @@ (<<7500, 7500>> :> 8252)
Combined(p) ==
  LET s(x) == Round(p[x][1], p[x][2])
  IN  IF {buy, now} \subseteq DOMAIN p THEN Pairs[s(buy), s(now)] ELSE s(terms)

Offer(i, u, s) ==
  [id |-> i, user |-> u, sender |-> s, address |-> s, claims |-> {}, mentions |-> {},
   links |-> {}, text |-> offer1, words |-> {buy, now}]
Spoofed ==
  [id |-> 3, user |-> ann, sender |-> evil, address |-> evil, claims |-> {brand},
   mentions |-> {brand}, links |-> {evil, shop}, text |-> notice, words |-> {terms}]
SomeMails == {Offer(1, ann, evil), Offer(2, bob, evil), Spoofed, Offer(4, ann, NoHost)}

Alike == Permutations(TwoInodes)
=============================================================================
