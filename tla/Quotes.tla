------------------------------- MODULE Quotes -------------------------------
(***************************************************************************)
(* What the customer of a case is asked to agree to: the revisions of the  *)
(* service quote, and one additional item the shop found, which a flexible *)
(* customer may let other shops bid for.                                   *)
(*                                                                         *)
(* A quote is created under the lock of the case, presented and decided    *)
(* under its own.  A decision on the item, the request for bids and a bid  *)
(* read the item, and write in a later statement without looking again;    *)
(* choosing a bid locks the item.  Lines, currencies, access rights and    *)
(* the customer's snapshot are left out.                                   *)
(***************************************************************************)
EXTENDS Naturals, Sequences, FiniteSets

CONSTANTS Shop, Request, MaxQuotes, Price, None

VARIABLES
  quotes,     \* service_quotes.status, by revision
  addon,      \* the case_addon_items row
  bid,        \* addon_competing_quotes of the item
  asking,     \* requests that have read the item and will write
  overtaken   \* history: a request wrote although the item had changed since it read

quoteVars == <<quotes, addon, bid, asking, overtaken>>

Undecided == {"draft", "presented"}
NoBid     == [status |-> "none", price |-> 0]
NoRequest == [write |-> "none", read |-> "none", shop |-> None, price |-> 0]

TypeOK ==
  /\ quotes \in Seq(Undecided \cup {"accepted", "declined", "superseded"})
  /\ addon \in [severity : {"critical", "urgent", "flexible"}, price : Price \cup {0},
                status : {"none", "pending", "approved", "declined_acknowledged", "deferred", "sent_for_competing_quote"}]
  /\ bid \in [Shop -> [status : {"none", "submitted", "selected", "declined"}, price : Price \cup {0}]]
  /\ DOMAIN asking = Request /\ overtaken \in BOOLEAN

Init ==
  /\ quotes = <<>>
  /\ addon \in [severity : {"critical", "urgent", "flexible"}, price : {0}, status : {"none"}]
  /\ bid = [s \in Shop |-> NoBid]
  /\ asking = [r \in Request |-> NoRequest] /\ overtaken = FALSE

-----------------------------------------------------------------------------
(* Service quotes *)

\* Seeded fault: only a quote that was presented is taken back.
SupersededBroken(s) == IF s = "presented" THEN "superseded" ELSE s

Superseded(s) == IF s \in Undecided THEN "superseded" ELSE s

createServiceQuote ==
  /\ Len(quotes) < MaxQuotes
  /\ quotes' = Append([n \in DOMAIN quotes |-> Superseded(quotes[n])], "draft")
  /\ UNCHANGED <<addon, bid, asking, overtaken>>

presentServiceQuote(n) ==
  /\ n \in DOMAIN quotes /\ quotes[n] = "draft"
  /\ quotes' = [quotes EXCEPT ![n] = "presented"]
  /\ UNCHANGED <<addon, bid, asking, overtaken>>

decideServiceQuote(n, decision) ==
  /\ n \in DOMAIN quotes /\ quotes[n] = "presented"
  /\ quotes' = [quotes EXCEPT ![n] = decision]
  /\ UNCHANGED <<addon, bid, asking, overtaken>>

-----------------------------------------------------------------------------
(* The additional item *)

severityAllowedDecisions ==
  [critical |-> {"approved", "declined_acknowledged"},
   urgent   |-> {"approved", "declined_acknowledged"},
   flexible |-> {"approved", "deferred"}]

flagAddonItem(price) ==
  /\ addon.status = "none"
  /\ addon' = [addon EXCEPT !.status = "pending", !.price = price]
  /\ UNCHANGED <<quotes, bid, asking, overtaken>>

Reads(r, write, shop, price) ==
  /\ asking[r] = NoRequest
  /\ asking' = [asking EXCEPT ![r] = [write |-> write, read |-> addon.status, shop |-> shop, price |-> price]]
  /\ UNCHANGED <<quotes, addon, bid, overtaken>>

decideAddonItem(r, decision) ==
  /\ addon.status = "pending" /\ decision \in severityAllowedDecisions[addon.severity]
  /\ Reads(r, decision, None, 0)

requestCompetingQuote(r) ==
  /\ addon.severity = "flexible" /\ addon.status \in {"pending", "deferred"}
  /\ Reads(r, "sent_for_competing_quote", None, 0)

submitCompetingQuote(r, shop, price) ==
  /\ addon.status = "sent_for_competing_quote"
  /\ Reads(r, "bid", shop, price)

\* The write that follows the read: the item's new status, or the bid of a shop, whose status
\* stays what it was.
Writes(r) ==
  LET q == asking[r]
  IN /\ q # NoRequest /\ asking' = [asking EXCEPT ![r] = NoRequest]
     /\ overtaken' = (overtaken \/ q.read # addon.status)
     /\ IF q.write = "bid"
        THEN /\ bid' = [bid EXCEPT ![q.shop] = [status |-> IF @.status = "none" THEN "submitted" ELSE @.status, price |-> q.price]]
             /\ UNCHANGED addon
        ELSE /\ addon' = [addon EXCEPT !.status = q.write]
             /\ UNCHANGED bid
     /\ UNCHANGED quotes

\* Seeded fault: the item keeps the price of the shop that found it.
SelectedPriceBroken(shop) == addon.price

SelectedPrice(shop) == bid[shop].price

selectCompetingQuote(shop) ==
  /\ addon.status = "sent_for_competing_quote" /\ bid[shop].status # "none"
  /\ bid' = [s \in Shop |-> IF s = shop THEN [bid[s] EXCEPT !.status = "selected"]
                            ELSE [bid[s] EXCEPT !.status = IF @ = "submitted" THEN "declined" ELSE @]]
  /\ addon' = [addon EXCEPT !.status = "approved", !.price = SelectedPrice(shop)]
  /\ UNCHANGED <<quotes, asking, overtaken>>

-----------------------------------------------------------------------------
\* What the routes of a quote and of the additional item let a caller do.
Quoting ==
  \/ createServiceQuote
  \/ \E n \in DOMAIN quotes : presentServiceQuote(n) \/ \E d \in {"accepted", "declined"} : decideServiceQuote(n, d)

Addons ==
  \/ \E price \in Price : flagAddonItem(price)
  \/ \E r \in Request : \/ \E d \in {"approved", "declined_acknowledged", "deferred"} : decideAddonItem(r, d)
                        \/ \E shop \in Shop, price \in Price : submitCompetingQuote(r, shop, price)
                        \/ requestCompetingQuote(r) \/ Writes(r)
  \/ \E shop \in Shop : selectCompetingQuote(shop)

Next == Quoting \/ Addons

Spec == Init /\ [][Next]_quoteVars

-----------------------------------------------------------------------------
(* Properties *)

\* "At most one quote per case is ever draft/presented at a time" (quotes.ts:77), and it is the
\* newest, so no decision targets terms that were replaced.  A critical or urgent item is never
\* put off or offered to other shops.  An item approved with a bid has that one bid selected, at
\* its price, and no other waiting, unless a request that had read the item before wrote after
\* the choice (decideAddonItem, submitCompetingQuote, selectCompetingQuote).
TermsAreCurrent ==
  /\ \A n \in DOMAIN quotes : quotes[n] \in Undecided => n = Len(quotes)
  /\ addon.severity # "flexible" => addon.status \notin {"deferred", "sent_for_competing_quote"}
  /\ LET selected == {s \in Shop : bid[s].status = "selected"}
     IN ~overtaken /\ selected # {} =>
          /\ Cardinality(selected) = 1 /\ addon.status = "approved"
          /\ \A s \in selected : addon.price = bid[s].price
          /\ \A s \in Shop : bid[s].status # "submitted"
=============================================================================
