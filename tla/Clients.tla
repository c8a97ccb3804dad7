------------------------------ MODULE Clients ------------------------------
(***************************************************************************)
(* The clients that turn a command line into a transaction: the header's  *)
(* family and input/output addresses, and the payload fields a processor  *)
(* reads.  The block producer of BlockRAFT-distributed_node                *)
(* (leader/testingBlockProducer.h) runs one fresh client per line of its  *)
(* command file.                                                           *)
(*                                                                         *)
(* A string is a sequence of tokens and C++ "+" on strings is \o, so an    *)
(* address built by concatenation is not injective in its parts.  A       *)
(* literal of the code ("wallet", "voter", "Cart", ...) is one token; the  *)
(* user's strings are sequences of tokens of their own.  A payload number *)
(* is what std::stoi makes of it (Contracts): an integer or NaN.          *)
(* A transaction is the record SerialNode's scheduler and the processors  *)
(* of Contracts read: family, verb, name, name2, value, inputs, outputs.  *)
(***************************************************************************)
EXTENDS Sequences, Contracts

Lit(s) == <<s>>

(* The header and payload fields the node reads; the header always parses. *)
Transaction(f, v, n, n2, val, ins, outs) ==
    [family |-> f, verb |-> v, name |-> n, name2 |-> n2, value |-> val,
     inputs |-> ins, outputs |-> outs, parsed |-> TRUE]

-----------------------------------------------------------------------------
(***************************************************************************)
(* A verb a client does not know: the wallet client of the serial tree    *)
(* sends {"Verb": "empty"}; the others leave the payload empty, which     *)
(* json::parse rejects in the processor.  The header names no address.    *)
(***************************************************************************)
NotFound(f, verb) == Transaction(f, verb, <<>>, <<>>, 0, {}, {})

(***************************************************************************)
(* WalletClient::processCommand of singleNode-serial/testBp: addr1 =      *)
(* "wallet" + client + key; a transfer's receiver is "wallet" + receiver  *)
(* + key.  The accounts are input and output.                             *)
(***************************************************************************)
\* Mutant: a transfer's header leaves out the receiver's account.
walletClientNoReceiver(c) ==
    LET addr1 == Lit("wallet") \o c[2] \o c[3]
        addr2 == Lit("wallet") \o c[4] \o c[5]
    IN  CASE c[1] \in {"deposit", "withdraw"} ->
                Transaction("wallet", c[1], addr1, <<>>, c[4], {addr1}, {addr1})
          [] c[1] = "transfer" ->
                Transaction("wallet", "transfer", addr1, addr2, c[6], {addr1}, {addr1})
          [] OTHER -> NotFound("wallet", "empty")

walletClient(c) ==
    LET addr1 == Lit("wallet") \o c[2] \o c[3]
        addr2 == Lit("wallet") \o c[4] \o c[5]
    IN  CASE c[1] \in {"deposit", "withdraw"} ->
                Transaction("wallet", c[1], addr1, <<>>, c[4], {addr1}, {addr1})
          [] c[1] = "transfer" ->
                Transaction("wallet", "transfer", addr1, addr2, c[6],
                            {addr1, addr2}, {addr1, addr2})
          [] OTHER -> NotFound("wallet", "empty")

(***************************************************************************)
(* votingClient::processCommand: voters live at "voter" + name and        *)
(* candidates at "candidate" + name; every key named is input and output. *)
(* The registrations carry no number.                                     *)
(***************************************************************************)
votingClient(c) ==
    LET voter(n)     == Lit("voter") \o n
        candidate(n) == Lit("candidate") \o n
    IN  CASE c[1] = "registerVoter" ->
                Transaction("voting", c[1], voter(c[2]), <<>>, 0,
                            {voter(c[2])}, {voter(c[2])})
          [] c[1] = "registerCandidate" ->
                Transaction("voting", c[1], candidate(c[2]), <<>>, 0,
                            {candidate(c[2])}, {candidate(c[2])})
          [] c[1] = "transferVote" ->
                Transaction("voting", c[1], voter(c[2]), voter(c[3]), c[4],
                            {voter(c[2]), voter(c[3])}, {voter(c[2]), voter(c[3])})
          [] c[1] = "castVote" ->
                Transaction("voting", c[1], voter(c[2]), candidate(c[3]), 0,
                            {voter(c[2]), candidate(c[3])},
                            {voter(c[2]), candidate(c[3])})
          [] OTHER -> NotFound("voting", Empty)

(***************************************************************************)
(* eCommClient::processCommand: the cart is "eComm" + client + "Cart",    *)
(* an item "eComm" + item.  checkout reads the cart from its own copy of  *)
(* the state when the command is made and declares each item word of it   *)
(* (cartItems) as well: what the header names is the cart as the client   *)
(* saw it, not as the block will find it.                                 *)
(***************************************************************************)
\* Mutant: a cart verb's header names the item and not the cart.
eCommClientNoCart(c, cartItems) ==
    LET cart(n) == Lit("eComm") \o n \o Lit("Cart")
        item(n) == Lit("eComm") \o n
    IN  CASE c[1] \in {"addToCart", "removeFromCart"} ->
                Transaction("eComm", c[1], cart(c[2]), item(c[3]), c[4],
                            {item(c[3])}, {item(c[3])})
          [] c[1] = "checkout" ->
                Transaction("eComm", c[1], cart(c[2]), <<>>, 0,
                            {cart(c[2])} \cup cartItems, {cart(c[2])} \cup cartItems)
          [] c[1] = "refillItem" ->
                Transaction("eComm", c[1], item(c[2]), <<>>, c[3],
                            {item(c[2])}, {item(c[2])})
          [] OTHER -> NotFound("eComm", Empty)

eCommClient(c, cartItems) ==
    LET cart(n) == Lit("eComm") \o n \o Lit("Cart")
        item(n) == Lit("eComm") \o n
    IN  CASE c[1] \in {"addToCart", "removeFromCart"} ->
                Transaction("eComm", c[1], cart(c[2]), item(c[3]), c[4],
                            {cart(c[2]), item(c[3])}, {cart(c[2]), item(c[3])})
          [] c[1] = "checkout" ->
                Transaction("eComm", c[1], cart(c[2]), <<>>, 0,
                            {cart(c[2])} \cup cartItems, {cart(c[2])} \cup cartItems)
          [] c[1] = "refillItem" ->
                Transaction("eComm", c[1], item(c[2]), <<>>, c[3],
                            {item(c[2])}, {item(c[2])})
          [] OTHER -> NotFound("eComm", Empty)

(***************************************************************************)
(* NFTClient::processCommand: the header names "nft" + owner and          *)
(* "nft" + image path, while the payload gives the processor the owners   *)
(* and the path as the user wrote them.  create declares the image as    *)
(* input only; transfer declares the old and the new owner as outputs.    *)
(***************************************************************************)
\* Mutant: a transfer's header leaves out the new owner.
nftClientNoNewOwner(c) ==
    LET addr(n) == Lit("nft") \o n
    IN  CASE c[1] = "create" ->
                Transaction("nft", "nft_create", c[2], <<>>, c[3],
                            {addr(c[2]), addr(c[3])}, {addr(c[2])})
          [] c[1] = "transfer" ->
                Transaction("nft", "nft_transfer", c[2], c[4], c[3],
                            {addr(c[2]), addr(c[3])}, {addr(c[2])})
          [] OTHER -> NotFound("nft", Empty)

nftClient(c) ==
    LET addr(n) == Lit("nft") \o n
    IN  CASE c[1] = "create" ->
                Transaction("nft", "nft_create", c[2], <<>>, c[3],
                            {addr(c[2]), addr(c[3])}, {addr(c[2])})
          [] c[1] = "transfer" ->
                Transaction("nft", "nft_transfer", c[2], c[4], c[3],
                            {addr(c[2]), addr(c[3]), addr(c[4])},
                            {addr(c[2]), addr(c[4])})
          [] OTHER -> NotFound("nft", Empty)

-----------------------------------------------------------------------------
(***************************************************************************)
(* The block producer, TestBlockProducer::produce.  A line of a command   *)
(* file is [exe, args]: the executable's name ("walletClientMain" and     *)
(* "./walletClientMain" are one value) and the words after it.  Blank    *)
(* lines and lines naming an unknown executable are skipped alike; a file *)
(* that does not open gives the same empty block as one with no known    *)
(* line, so a missing file is the empty sequence.                         *)
(***************************************************************************)
ClientExes == {"walletClientMain", "votingClientMain", "eCommClientMain", "nftClientMain"}

(* splitString(cart).first: the item words of the cart string the eComm *)
(* client reads from the persistent "globalState", opened read-only.     *)
CartWords(st0, cart) ==
    LET c == Cart(getValue(st0, cart)) IN {c[i][1] : i \in 1..Len(c)}

(* The fresh client the producer runs for one line. *)
clientTxn(l, st0) ==
    CASE l.exe = "walletClientMain" -> walletClient(l.args)
      [] l.exe = "votingClientMain" -> votingClient(l.args)
      [] l.exe = "eCommClientMain"  ->
            eCommClient(l.args, CartWords(st0, Lit("eComm") \o l.args[2] \o Lit("Cart")))
      [] l.exe = "nftClientMain"    -> nftClient(l.args)

(***************************************************************************)
(* The file is read from its first line on every call: the first          *)
(* txnCount lines of a known executable make the block, and no line is    *)
(* consumed for the next call.                                            *)
(***************************************************************************)
produce(file, txnCount, st0) ==
    LET known == SelectSeq(file, LAMBDA l : l.exe \in ClientExes)
    IN  [i \in 1..Min({txnCount, Len(known)}) |-> clientTxn(known[i], st0)]

=============================================================================
