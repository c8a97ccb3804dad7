----------------------------- MODULE Contracts -----------------------------
(***************************************************************************)
(* The transaction-family processors a scheduler dispatches to: wallet,   *)
(* voting, eComm and nft.  Each reads through the block's write-set       *)
(* (myMap) and falls back to the GlobalState, and writes into myMap only. *)
(* A processor call is one operator from (myMap, state, transaction) to   *)
(* [ok |-> the bool it returns, map |-> myMap after the call].  The      *)
(* writes made before an early return or an exception stay in myMap.     *)
(*                                                                         *)
(* Sources: singleNode-serial/smartContracts/{voting,eCommerce,nft}; the  *)
(* serial tree has no wallet directory although its scheduler includes    *)
(* ../smartContracts/wallet/walletProcessor.h, so the wallet is the        *)
(* single-node copy of singleNode-parallel.                                *)
(*                                                                         *)
(* Strings are abstracted to what the code tells apart.  The empty string *)
(* is the model value Empty; a decimal string is its integer; a payload  *)
(* number that std::stoi rejects is the model value NaN; a cart string    *)
(* "item qty item qty " is the sequence of its <<item, qty>> pairs (the    *)
(* empty cart is the empty string); a JSON array of image hashes is       *)
(* [nfts |-> sequence].  Stored values are always what a processor wrote, *)
(* so only payload numbers can make stoi throw, and every JSON string the *)
(* nft processor parses is a dump it made.                                *)
(***************************************************************************)
EXTENDS Integers, Sequences, SequencesExt

CONSTANTS Empty,       \* the empty string
          NaN,         \* a payload number std::stoi throws on
          ImageHash    \* image path -> sha512 of the file, Empty if unreadable

Result(ok, m) == [ok |-> ok, map |-> m]

(* GlobalState::getValue: "" for a key never inserted. *)
getValue(st, k) == IF k \in DOMAIN st THEN st[k] ELSE Empty

(* fromState.empty() ? 0 : std::stoi(fromState) *)
NumOrZero(v) == IF v = Empty THEN 0 ELSE v

-----------------------------------------------------------------------------
(* wallet: walletProcessor.h *)

\* Mutant: the balance is read from the state even when myMap has it.
getOrLoadBalanceState(m, st, name) ==
    [val |-> NumOrZero(getValue(st, name)),
     map |-> IF name \in DOMAIN m THEN m
             ELSE (name :> NumOrZero(getValue(st, name))) @@ m]

getOrLoadBalance(m, st, name) ==
    IF name \in DOMAIN m THEN [val |-> m[name], map |-> m]
    ELSE [val |-> NumOrZero(getValue(st, name)),
          map |-> (name :> NumOrZero(getValue(st, name))) @@ m]

deposit(m, st, name, value) ==
    LET g == getOrLoadBalance(m, st, name)
    IN  IF value = NaN THEN Result(FALSE, g.map)
        ELSE Result(TRUE, [g.map EXCEPT ![name] = g.val + value])

withdraw(m, st, name, value) ==
    LET g == getOrLoadBalance(m, st, name)
    IN  CASE value = NaN      -> Result(FALSE, g.map)
          [] g.val >= value   -> Result(TRUE, [g.map EXCEPT ![name] = g.val - value])
          [] OTHER            -> Result(FALSE, g.map)

(* std::stoi(value) comes first; name2's balance is written last, so a   *)
(* transfer to oneself leaves balance + amount.                          *)
transfer(m, st, name1, name2, value) ==
    IF value = NaN THEN Result(FALSE, m)
    ELSE LET g1 == getOrLoadBalance(m, st, name1)
             g2 == getOrLoadBalance(g1.map, st, name2)
         IN  IF g1.val >= value
               THEN Result(TRUE, [[g2.map EXCEPT ![name1] = g1.val - value]
                                    EXCEPT ![name2] = g2.val + value])
               ELSE Result(FALSE, g2.map)

walletProcessTxn(m, st, tx) ==
    CASE tx.verb = "deposit"  -> deposit(m, st, tx.name, tx.value)
      [] tx.verb = "withdraw" -> withdraw(m, st, tx.name, tx.value)
      [] tx.verb = "transfer" -> transfer(m, st, tx.name, tx.name2, tx.value)
      [] OTHER                -> Result(FALSE, m)

-----------------------------------------------------------------------------
(* voting: votingProcessor.h (serial) *)

getOrLoadVoteCount(m, st, name) ==
    IF name \in DOMAIN m THEN [val |-> m[name], map |-> m]
    ELSE [val |-> NumOrZero(getValue(st, name)),
          map |-> (name :> NumOrZero(getValue(st, name))) @@ m]

(* Only myMap is asked whether the name is registered; both outcomes     *)
(* return true.                                                          *)
registerVoter(m, name) ==
    IF name \in DOMAIN m THEN Result(TRUE, m) ELSE Result(TRUE, (name :> 1) @@ m)

registerCandidate(m, name) ==
    IF name \in DOMAIN m THEN Result(FALSE, m) ELSE Result(TRUE, (name :> 0) @@ m)

transferVote(m, st, from, to, value) ==
    IF value = NaN THEN Result(FALSE, m)
    ELSE LET f == getOrLoadVoteCount(m, st, from)
             t == getOrLoadVoteCount(f.map, st, to)
         IN  IF f.val >= value
               THEN Result(TRUE, [[t.map EXCEPT ![from] = f.val - value]
                                    EXCEPT ![to] = t.val + value])
               ELSE Result(FALSE, t.map)

castVote(m, st, voter, candidate) ==
    LET v == getOrLoadVoteCount(m, st, voter)
        c == getOrLoadVoteCount(v.map, st, candidate)
    IN  IF v.val >= 1
          THEN Result(TRUE, [[c.map EXCEPT ![voter] = v.val - 1]
                               EXCEPT ![candidate] = c.val + 1])
          ELSE Result(FALSE, c.map)

votingProcessTxn(m, st, tx) ==
    CASE tx.verb = "registerVoter"     -> registerVoter(m, tx.name)
      [] tx.verb = "registerCandidate" -> registerCandidate(m, tx.name)
      [] tx.verb = "transferVote"      -> transferVote(m, st, tx.name, tx.name2, tx.value)
      [] tx.verb = "castVote"          -> castVote(m, st, tx.name, tx.name2)
      [] OTHER                         -> Result(FALSE, m)

-----------------------------------------------------------------------------
(* eComm: eCommProcessor.h (serial) *)

(* A miss copies the state's value, "" included, into myMap. *)
getOrLoadValue(m, st, name) ==
    IF name \in DOMAIN m THEN [val |-> m[name], map |-> m]
    ELSE [val |-> getValue(st, name), map |-> (name :> getValue(st, name)) @@ m]

checkout(m, st, cart) ==
    LET g == getOrLoadValue(m, st, cart)
    IN  IF g.val = Empty THEN Result(TRUE, g.map)
        ELSE Result(TRUE, [g.map EXCEPT ![cart] = Empty])

(* Reading a cart string: "" has no pairs. *)
Cart(v) == IF v = Empty THEN <<>> ELSE v

(* Writing one: no pairs make "". *)
CartString(c) == IF c = <<>> THEN Empty ELSE c

(* The positions of a cart whose item name is item. *)
ItemAt(c, item) == {i \in 1..Len(c) : c[i][1] = item}

(***************************************************************************)
(* addToCart re-tokenises the cart: the pair naming the item gets         *)
(* stoi(qty) + stoi(quantity), which throws on a non-number; an item not  *)
(* in the cart is appended with the payload's quantity as given.          *)
(***************************************************************************)
addToCart(m, st, cart, item, quantity) ==
    LET g == getOrLoadValue(m, st, cart)
        c == Cart(g.val)
    IN  IF ItemAt(c, item) = {}
          THEN Result(TRUE, [g.map EXCEPT ![cart] = Append(c, <<item, quantity>>)])
          ELSE LET i == CHOOSE j \in ItemAt(c, item) : TRUE
               IN  IF c[i][2] = NaN \/ quantity = NaN THEN Result(FALSE, g.map)
                   ELSE Result(TRUE, [g.map EXCEPT ![cart] =
                                        [c EXCEPT ![i] = <<item, c[i][2] + quantity>>]])

(* A quantity that drops to 0 or below removes the item; a missing item  *)
(* fails before anything is written back.                                 *)
removeFromCart(m, st, cart, item, quantity) ==
    LET g == getOrLoadValue(m, st, cart)
        c == Cart(g.val)
    IN  IF ItemAt(c, item) = {} THEN Result(FALSE, g.map)
        ELSE LET i == CHOOSE j \in ItemAt(c, item) : TRUE
                 q == c[i][2] - quantity
             IN  IF c[i][2] = NaN \/ quantity = NaN THEN Result(FALSE, g.map)
                 ELSE Result(TRUE, [g.map EXCEPT ![cart] =
                                      IF q > 0 THEN [c EXCEPT ![i] = <<item, q>>]
                                               ELSE CartString(RemoveAt(c, i))])

refillItem(m, st, item, quantity) ==
    LET g == getOrLoadValue(m, st, item)
    IN  IF quantity = NaN THEN Result(FALSE, g.map)
        ELSE Result(TRUE, [g.map EXCEPT ![item] = NumOrZero(g.val) + quantity])

eCommProcessTxn(m, st, tx) ==
    CASE tx.verb = "checkout"       -> checkout(m, st, tx.name)
      [] tx.verb = "addToCart"      -> addToCart(m, st, tx.name, tx.name2, tx.value)
      [] tx.verb = "removeFromCart" -> removeFromCart(m, st, tx.name, tx.name2, tx.value)
      [] tx.verb = "refillItem"     -> refillItem(m, st, tx.name, tx.value)
      [] OTHER                      -> Result(FALSE, m)

-----------------------------------------------------------------------------
(* nft: nftProcessor.h (serial) *)

(* json: "" and "[]" both read as the empty array. *)
NFTs(v) == IF v = Empty THEN <<>> ELSE v.nfts

getOrLoadOwnerNFTList(m, st, owner) ==
    IF owner \in DOMAIN m THEN [val |-> m[owner].nfts, map |-> m]
    ELSE [val |-> NFTs(getValue(st, owner)),
          map |-> (owner :> [nfts |-> NFTs(getValue(st, owner))]) @@ m]

(* An owner holding the image already is left as is, and it succeeds.   *)
createNFT(m, st, path, owner) ==
    LET h == ImageHash[path]
        g == getOrLoadOwnerNFTList(m, st, owner)
    IN  CASE h = Empty               -> Result(FALSE, m)
          [] Contains(g.val, h)      -> Result(TRUE, g.map)
          [] OTHER -> Result(TRUE, [g.map EXCEPT ![owner] = [nfts |-> Append(g.val, h)]])

(***************************************************************************)
(* transferNFT looks the old owner up in nftMap only: an owner whose list *)
(* is in the state but was never loaded into this map is "not found".     *)
(* The old owner's entry is written (and its accessor released) before    *)
(* the new owner's list is loaded and appended to.                       *)
(***************************************************************************)
transferNFT(m, st, path, oldOwner, newOwner) ==
    LET h == ImageHash[path]
    IN  IF h = Empty \/ oldOwner \notin DOMAIN m \/ ~Contains(m[oldOwner].nfts, h)
          THEN Result(FALSE, m)
          ELSE LET m1 == [m EXCEPT ![oldOwner] = [nfts |-> RemoveFirst(@.nfts, h)]]
                   g  == getOrLoadOwnerNFTList(m1, st, newOwner)
               IN  Result(TRUE, [g.map EXCEPT ![newOwner] = [nfts |-> Append(g.val, h)]])

nftProcessTxn(m, st, tx) ==
    CASE tx.verb = "nft_create"   -> createNFT(m, st, tx.value, tx.name)
      [] tx.verb = "nft_transfer" -> transferNFT(m, st, tx.value, tx.name, tx.name2)
      [] OTHER                    -> Result(FALSE, m)

=============================================================================
