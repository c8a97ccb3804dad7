--------------------------- MODULE MCSerialNode ---------------------------
(***************************************************************************)
(* The serial node fed by the block producer: every transaction is what  *)
(* a client makes of one line of setup.txt or testFile.txt.  Users u and *)
(* v each hold an account x; p votes for q; client k fills a cart with   *)
(* item i; o1 mints images and transfers one to o2.  One command of each *)
(* family passes a number std::stoi rejects, and the image "gone" cannot *)
(* be read.                                                               *)
(***************************************************************************)
EXTENDS SerialNode, Clients

CONSTANT NotANumber

U == <<"u">>
V == <<"v">>
X == <<"x">>
P == <<"p">>
Q == <<"q">>
K == <<"k">>
I == <<"i">>
O1 == <<"o1">>
O2 == <<"o2">>
Img == <<"img">>
Gone == <<"gone">>

MCImageHash == (Img :> "h1") @@ (Gone :> Empty)

Line(exe, args) == [exe |-> exe, args |-> args]

(* A line of an executable the producer does not know. *)
Shell == Line("echo", <<"deposit", U, X, 5>>)

(* The commands a setup file is written with. *)
SetupLines ==
    { Line("walletClientMain", <<"deposit", U, X, 2>>),
      Line("votingClientMain", <<"registerVoter", P>>),
      Line("votingClientMain", <<"registerCandidate", Q>>),
      Line("eCommClientMain", <<"addToCart", K, I, 1>>),
      Line("eCommClientMain", <<"refillItem", I, 2>>),
      Line("nftClientMain", <<"create", O1, Img>>),
      Shell }

(* Every command, with a number stoi rejects, an image that cannot be   *)
(* read and a verb no client knows.                                     *)
TestLines ==
    SetupLines \cup
    { Line("walletClientMain", <<"withdraw", U, X, 1>>),
      Line("walletClientMain", <<"withdraw", V, X, 1>>),
      Line("walletClientMain", <<"transfer", U, X, V, X, 1>>),
      Line("walletClientMain", <<"deposit", U, X, NotANumber>>),
      Line("walletClientMain", <<"balance", U, X>>),
      Line("votingClientMain", <<"castVote", P, Q>>),
      Line("eCommClientMain", <<"addToCart", K, I, NotANumber>>),
      Line("eCommClientMain", <<"removeFromCart", K, I, 1>>),
      Line("eCommClientMain", <<"checkout", K>>),
      Line("nftClientMain", <<"create", O1, Gone>>),
      Line("nftClientMain", <<"transfer", O1, Img, O2>>) }

(* Setup files of up to three lines, so that one holds more known lines *)
(* than txnCount; test files of up to two.                              *)
MCSetupFiles == BoundedSeq(SetupLines, 3)
MCTestFiles == BoundedSeq(TestLines, 2)

(* A node started on an empty persistent state, or on one where k's cart *)
(* holds one i: the eComm client declares the cart's items for checkout. *)
MCFreshState == {[k \in {} |-> Empty],
                 <<"eComm", "k", "Cart">> :> <<<<<<"eComm", "i">>, 1>>>>}

(* A node restarted on the state an earlier run left: candidate q holds  *)
(* votes and o1 owns the image.                                          *)
MCRestartState == {(<<"candidate", "q">> :> 3) @@ (O1 :> [nfts |-> <<"h1">>])}

=============================================================================
