------------------------------- MODULE Trade -------------------------------
(***************************************************************************)
(* Trading between players (TradeHandler.cpp, TradeData): two players show *)
(* each other items, gold and a spell that one casts on an item of the     *)
(* other, each accepts what both windows show, and the second acceptance   *)
(* exchanges everything at once.                                           *)
(*                                                                         *)
(* The handlers of two players that trade run in the thread of one map,    *)
(* one after the other; leaving the map cancels the trade.  Between two of *)
(* them a player may use up, sell or find items and spend gold.  A bag     *)
(* place holds one item.  What a spell does and the two transactions that  *)
(* save the inventories are left out.                                      *)
(***************************************************************************)
EXTENDS Integers, FiniteSets, FiniteSetsExt, SequencesExt

CONSTANTS
    Players, Items,
    TradedCount,    \* TRADE_SLOT_TRADED_COUNT
    BagSize,        \* places for items that a player has
    MaxMoney,       \* MAX_MONEY_AMOUNT
    Purse           \* gold of each player at the beginning

ASSUME TradeAssumption ==
    /\ {TradedCount, BagSize, MaxMoney} \subseteq Nat \ {0}
    /\ Purse \in 0 .. MaxMoney
    /\ IsFiniteSet(Players) /\ IsFiniteSet(Items)

VARIABLES
    trade,      \* m_trade of each player
    owner,      \* whose inventory an item is in
    coinage,    \* gold of each player
    agreed      \* history: what both windows showed when a player accepted

vars == <<trade, owner, coinage, agreed>>

\* TRADE_SLOT_NONTRADED is the slot behind the traded ones.
Slots == 0 .. TradedCount
TradedSlots == 0 .. TradedCount - 1
NonTraded == TradedCount

Nobody == "nobody"
NoItem == "no item"
NoDeal == <<>>

\* The null pointers are not players and not items.
ASSUME NullAssumption == Nobody \notin Players /\ NoItem \notin Items

\* A new TradeData; that of Nobody stands for m_trade = nullptr.
TradeData(trader) ==
    [trader |-> trader, accepted |-> FALSE, recent |-> FALSE, money |-> 0, spell |-> FALSE,
     items |-> [s \in Slots |-> NoItem]]

NoTrade == TradeData(Nobody)

\* The part of a TradeData that the other player is shown.
Window(t, p) == [money |-> t[p].money, spell |-> t[p].spell, items |-> t[p].items]

\* GetItem: a slot remembers an item that may have left the inventory.
GetItem(t, p, slot) ==
    LET i == t[p].items[slot] IN IF i # NoItem /\ owner[i] = p THEN i ELSE NoItem

Offered(t, p) == {GetItem(t, p, s) : s \in TradedSlots} \ {NoItem}

Bag(p) == {i \in Items : owner[i] = p}

-----------------------------------------------------------------------------
\* The setters of TradeData, on all trades t: a change takes back what both
\* sides have accepted.
Unaccepted(t, p) == [t EXCEPT ![p].accepted = FALSE, ![t[p].trader].accepted = FALSE]

\* A plausible slip: only the player's own acceptance is taken back.
SetSpell_resets_own(t, p, spell) ==
    IF t[p].spell = spell THEN t ELSE [t EXCEPT ![p].spell = spell, ![p].accepted = FALSE]

SetSpell(t, p, spell) ==
    IF t[p].spell = spell THEN t ELSE Unaccepted([t EXCEPT ![p].spell = spell], p)

SetMoney(t, p, gold) ==
    IF t[p].money = gold THEN t ELSE Unaccepted([t EXCEPT ![p].money = gold], p)

\* Spells that were meant for the old item, or that may have used it, go.
SetItem(t, p, slot, item) ==
    IF t[p].items[slot] = item THEN t
    ELSE LET changed == Unaccepted([t EXCEPT ![p].items[slot] = item], p)
             aimed   == IF slot = NonTraded THEN SetSpell(changed, t[p].trader, FALSE) ELSE changed
         IN  SetSpell(aimed, p, FALSE)

\* What the handlers of gold and items do before they call the setter.
Modified(t, p) ==
    [t EXCEPT ![t[p].trader].accepted = FALSE, ![t[p].trader].recent = TRUE, ![p].recent = TRUE]

\* The trades become t, and the players of pressed have accepted just now.
Put(t, pressed) ==
    /\ trade' = t
    /\ agreed' = [p \in Players |->
            IF ~t[p].accepted THEN NoDeal
            ELSE IF p \in pressed THEN <<Window(t, p), Window(t, t[p].trader)>>
            ELSE agreed[p]]

Trading(p) == trade[p].trader # Nobody

-----------------------------------------------------------------------------
\* A plausible slip: the other player may be trading with somebody else.
HandleInitiateTradeOpcode_busy(p, other) ==
    /\ ~Trading(p) /\ other # p
    /\ Put([trade EXCEPT ![p] = TradeData(other), ![other] = TradeData(p)], {})
    /\ UNCHANGED <<owner, coinage>>

HandleInitiateTradeOpcode(p, other) ==
    /\ ~Trading(p) /\ ~Trading(other) /\ other # p
    /\ Put([trade EXCEPT ![p] = TradeData(other), ![other] = TradeData(p)], {})
    /\ UNCHANGED <<owner, coinage>>

\* HandleCancelTradeOpcode, leaving the map and taking a flight.
TradeCancel(p) ==
    /\ Trading(p)
    /\ Put([trade EXCEPT ![p] = NoTrade, ![trade[p].trader] = NoTrade], {})
    /\ UNCHANGED <<owner, coinage>>

HandleSetTradeGoldOpcode(p, gold) ==
    /\ Trading(p)
    /\ gold <= coinage[p]
    /\ Put(SetMoney(Modified(trade, p), p, gold), {})
    /\ UNCHANGED <<owner, coinage>>

HandleSetTradeItemOpcode(p, slot, item) ==
    /\ Trading(p)
    /\ owner[item] = p
    /\ \A s \in Slots : trade[p].items[s] # item
    /\ Put(SetItem(Modified(trade, p), p, slot, item), {})
    /\ UNCHANGED <<owner, coinage>>

HandleClearTradeItemOpcode(p, slot) ==
    /\ Trading(p)
    /\ Put(SetItem(Modified(trade, p), p, slot, NoItem), {})
    /\ UNCHANGED <<owner, coinage>>

\* Spell::CheckCast, for a spell on the other's item that is not traded.
CastOnTradeItem(p) ==
    /\ Trading(p)
    /\ GetItem(trade, trade[p].trader, NonTraded) # NoItem
    /\ Put(SetSpell(trade, p, TRUE), {})
    /\ UNCHANGED <<owner, coinage>>

HandleUnacceptTradeOpcode(p) ==
    /\ Trading(p)
    /\ Put([trade EXCEPT ![p].accepted = FALSE], {})
    /\ UNCHANGED <<owner, coinage>>

-----------------------------------------------------------------------------
\* HandleAcceptTradeOpcode: the scam prevention delay is over when the second
\* of the last modification is.
MayAccept(p) == Trading(p) /\ ~trade[p].recent

Pressed(p) == [trade EXCEPT ![p].accepted = TRUE, ![p].recent = TRUE]

EnoughGold(p) == trade[p].money <= coinage[p]

\* The first to accept; the players are too far from each other, one is a game
\* master, or an item cannot be traded any more: the acceptance stays.
AcceptAlone(p, tooFar) ==
    /\ MayAccept(p)
    /\ tooFar \/ (EnoughGold(p) /\ EnoughGold(trade[p].trader))
    /\ Put(Pressed(p), {p})
    /\ UNCHANGED <<owner, coinage>>

\* Somebody has spent what is in his window: his own acceptance is taken back.
AcceptWithoutGold(p) ==
    LET poor == IF ~EnoughGold(p) THEN p ELSE trade[p].trader IN
    /\ MayAccept(p)
    /\ ~EnoughGold(poor)
    /\ Put([Pressed(p) EXCEPT ![poor].accepted = FALSE], {p})
    /\ UNCHANGED <<owner, coinage>>

\* A plausible slip: the partner's gold is not checked again.
AcceptsLast_own_gold(p) ==
    /\ MayAccept(p)
    /\ EnoughGold(p)
    /\ trade[trade[p].trader].accepted

\* The second to accept.
AcceptsLast(p) ==
    /\ MayAccept(p)
    /\ EnoughGold(p) /\ EnoughGold(trade[p].trader)
    /\ trade[trade[p].trader].accepted

\* The item that the spell of p is for is there.
HasTarget(p) == trade[p].spell => GetItem(trade, trade[p].trader, NonTraded) # NoItem

\* The spell of one side, first p's own, cannot be cast: the spell goes.
AcceptSpellFails(p, caster) ==
    /\ AcceptsLast(p)
    /\ caster \in {p, trade[p].trader}
    /\ trade[caster].spell
    /\ caster # p => HasTarget(p)
    /\ Put(SetSpell(Pressed(p), caster, FALSE), {p})
    /\ UNCHANGED <<owner, coinage>>

\* CanStoreItems: the places of items in trade count as free.
CanStoreItems(p, items) ==
    Cardinality(Bag(p) \ Offered(trade, p)) + Cardinality(items) <= BagSize

AcceptWithoutSpace(p) ==
    LET other == trade[p].trader IN
    /\ AcceptsLast(p)
    /\ HasTarget(p) /\ HasTarget(other)
    /\ ~CanStoreItems(p, Offered(trade, other)) \/ ~CanStoreItems(other, Offered(trade, p))
    /\ Put([Unaccepted(Pressed(p), p) EXCEPT ![other].recent = TRUE], {p})
    /\ UNCHANGED <<owner, coinage>>

\* moveItems for one slot, both items being in nobody's inventory o: if one
\* does not fit, both go back.
MoveSlot(p, o, slot) ==
    LET other    == trade[p].trader
        mine     == GetItem(trade, p, slot)
        his      == GetItem(trade, other, slot)
        fits(x)  == Cardinality({i \in Items : o[i] = x}) < BagSize
        both     == (mine = NoItem \/ fits(other)) /\ (his = NoItem \/ fits(p))
        to(x, y) == IF both THEN y ELSE IF fits(x) THEN x ELSE Nobody
    IN  [i \in Items |-> CASE i = mine -> to(p, other) [] i = his -> to(other, p) [] OTHER -> o[i]]

moveItems(p) ==
    LET inHand == Offered(trade, p) \union Offered(trade, trade[p].trader)
        taken  == [i \in Items |-> IF i \in inHand THEN Nobody ELSE owner[i]]
    IN  FoldLeft(LAMBDA o, n : MoveSlot(p, o, n - 1), taken, [n \in 1 .. TradedCount |-> n])

\* ModifyMoney, down and up.
Paid(money, sum) == IF money > sum THEN money - sum ELSE 0
Gained(money, sum) == IF money + sum < MaxMoney THEN money + sum ELSE MaxMoney

\* A plausible slip: whether it fits is asked for one side only.
CompleteTrade_one_side_fits(p) ==
    LET other == trade[p].trader IN
    /\ AcceptsLast(p)
    /\ HasTarget(p) /\ HasTarget(other)
    /\ CanStoreItems(p, Offered(trade, other))
    /\ owner' = moveItems(p)
    /\ coinage' = [coinage EXCEPT
            ![p] = Gained(Paid(@, trade[p].money), trade[other].money),
            ![other] = Gained(Paid(@, trade[other].money), trade[p].money)]
    /\ Put([trade EXCEPT ![p] = NoTrade, ![other] = NoTrade], {})

\* The exchange.
CompleteTrade(p) ==
    LET other == trade[p].trader IN
    /\ AcceptsLast(p)
    /\ HasTarget(p) /\ HasTarget(other)
    /\ CanStoreItems(p, Offered(trade, other)) /\ CanStoreItems(other, Offered(trade, p))
    /\ owner' = moveItems(p)
    /\ coinage' = [coinage EXCEPT
            ![p] = Gained(Paid(@, trade[p].money), trade[other].money),
            ![other] = Gained(Paid(@, trade[other].money), trade[p].money)]
    /\ Put([trade EXCEPT ![p] = NoTrade, ![other] = NoTrade], {})

-----------------------------------------------------------------------------
\* time(nullptr) goes on.
SecondPasses ==
    /\ \E p \in Players : trade[p].recent
    /\ trade' = [p \in Players |-> [trade[p] EXCEPT !.recent = FALSE]]
    /\ UNCHANGED <<owner, coinage, agreed>>

\* An item is used up, sold or expires, without a look at the trade window.
LoseItem(i) ==
    /\ owner[i] # Nobody
    /\ owner' = [owner EXCEPT ![i] = Nobody]
    /\ UNCHANGED <<trade, coinage, agreed>>

FindItem(p, i) ==
    /\ owner[i] = Nobody
    /\ Cardinality(Bag(p)) < BagSize
    /\ owner' = [owner EXCEPT ![i] = p]
    /\ UNCHANGED <<trade, coinage, agreed>>

SpendMoney(p) ==
    /\ coinage[p] > 0
    /\ coinage' = [coinage EXCEPT ![p] = @ - 1]
    /\ UNCHANGED <<trade, owner, agreed>>

-----------------------------------------------------------------------------
Init ==
    /\ trade = [p \in Players |-> NoTrade]
    /\ owner = [i \in Items |-> Nobody]
    /\ coinage = [p \in Players |-> Purse]
    /\ agreed = [p \in Players |-> NoDeal]

Offer(p) ==
    \/ \E gold \in 0 .. MaxMoney : HandleSetTradeGoldOpcode(p, gold)
    \/ \E slot \in Slots, i \in Items : HandleSetTradeItemOpcode(p, slot, i)
    \/ \E slot \in Slots : HandleClearTradeItemOpcode(p, slot)
    \/ CastOnTradeItem(p)
    \/ HandleUnacceptTradeOpcode(p)

HandleAcceptTradeOpcode(p) ==
    \/ \E tooFar \in BOOLEAN : AcceptAlone(p, tooFar)
    \/ AcceptWithoutGold(p)
    \/ \E caster \in Players : AcceptSpellFails(p, caster)
    \/ AcceptWithoutSpace(p)
    \/ CompleteTrade(p)

Next ==
    \/ \E p, other \in Players : HandleInitiateTradeOpcode(p, other)
    \/ \E p \in Players : TradeCancel(p) \/ Offer(p) \/ HandleAcceptTradeOpcode(p) \/ SpendMoney(p)
    \/ \E i \in Items : LoseItem(i) \/ \E p \in Players : FindItem(p, i)
    \/ SecondPasses

Spec == Init /\ [][Next]_vars

-----------------------------------------------------------------------------
\* The state has the types the code declares; no bag holds more than it can.
TypeOK ==
    /\ trade \in [Players ->
            [trader : Players \union {Nobody}, accepted : BOOLEAN, recent : BOOLEAN,
             money : 0 .. MaxMoney, spell : BOOLEAN, items : [Slots -> Items \union {NoItem}]]]
    /\ owner \in [Items -> Players \union {Nobody}]
    /\ coinage \in [Players -> 0 .. MaxMoney]
    /\ \A p \in Players : Cardinality(Bag(p)) <= BagSize

\* Trades come in pairs: each TradeData is deleted with its partner's, and no
\* third player's points to either (TradeCancel follows the pointer).
TradesPaired ==
    \A p \in Players : Trading(p) =>
        LET other == trade[p].trader IN other # p /\ Trading(other) /\ trade[other].trader = p

\* Whoever counts as having accepted has accepted what both windows show now:
\* no change of either side slips in behind an acceptance.
AcceptedIsShown ==
    \A p \in Players : Trading(p) /\ trade[p].accepted =>
        agreed[p] = <<Window(trade, p), Window(trade, trade[p].trader)>>

\* The step that exchanges the goods of p.
Completes(p) == Trading(p) /\ trade'[p] = NoTrade /\ <<owner, coinage>>' # <<owner, coinage>>

\* A trade is whole or does not happen: when anything changes hands, all that
\* both offer and still have does, and nothing gets lost on the way.
TradeIsWhole ==
    [][\A p \in Players : Completes(p) =>
        LET other == trade[p].trader IN
        /\ \A i \in Offered(trade, p) : owner'[i] = other
        /\ \A i \in Items : i \notin Offered(trade, p) \union Offered(trade, other)
                => owner'[i] = owner[i]]_vars

\* A trade makes no gold, and loses none but what exceeds MAX_MONEY_AMOUNT.
Gold(c) == MapThenSumSet(LAMBDA p : c[p], Players)

GoldIsKept ==
    [][\A p \in Players : Completes(p) =>
        \/ Gold(coinage') = Gold(coinage)
        \/ /\ Gold(coinage') < Gold(coinage)
           /\ MaxMoney \in {coinage'[p], coinage'[trade[p].trader]}]_vars
=============================================================================
