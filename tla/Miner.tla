------------------------------- MODULE Miner -------------------------------
(***************************************************************************)
(* Mining beside the wallet's other calls: mine() of src/src/miner.rs and  *)
(* the derive_next_secret it uses.  A miner asks for the target, takes the *)
(* next secret of the MINING chain, and another for the subsidy when there *)
(* is one, before it works; it reports its solution and stores the mined   *)
(* output with store_directly.  The subsidy is handed to the caller only.  *)
(* The work itself (the hash loop) changes nothing and is left out.        *)
(***************************************************************************)
EXTENDS Wallet

CONSTANTS
    Mining,  \* calls of mine() that can be in progress at once
    Reward,  \* mining amounts the server announces
    Subsidy, \* subsidy amounts it announces, 0 for none
    Alone    \* whether one caller makes one call at a time: the cases to look at

ASSUME MinerAssumption ==
    /\ Reward \subseteq Amount \ {0}
    /\ Subsidy \subseteq Amount
    /\ Alone \subseteq BOOLEAN

VARIABLES
    miner,    \* what each mine() in progress knows
    reported, \* reports whose caller has given up, not yet at the server
    alone     \* this caller makes one call at a time, or other tasks recover

minerVars == <<vars, miner, reported, alone>>

Working == [pc      : {"rest", "read", "advance", "report", "store"},
            reward  : Amount,
            subsidy : Amount,  \* still to be given a secret
            depth   : Nat,     \* MINING depth it has read
            mined   : Coins,   \* the reward, once it has a secret
            extra   : Coins]   \* the subsidy, once it has one

Rest == [pc |-> "rest", reward |-> 0, subsidy |-> 0, depth |-> 0,
         mined |-> NoCoins, extra |-> NoCoins]

NoMining == \A m \in Mining : miner[m].pc = "rest"

ReportOf(m) == Updated(miner[m].mined, miner[m].extra)

MinerGoto(m, pc) == miner' = [miner EXCEPT ![m].pc = pc]

MinerInit ==
    /\ Init
    /\ miner = [m \in Mining |-> Rest]
    /\ reported = {}
    /\ alone \in Alone

----------------------------------------------------------------------------
(* mine *)

\* GET /target: the server says what it pays.  With one call at a time the
\* recover() before it is over.
MineBegin(m) ==
    /\ miner[m].pc = "rest"
    /\ alone => AllAtRest /\ NoMining
    /\ \E reward \in Reward, subsidy \in Subsidy :
         miner' = [miner EXCEPT ![m] = [Rest EXCEPT !.pc = "read",
                                                    !.reward = reward,
                                                    !.subsidy = subsidy]]
    /\ task' = [t \in Task |-> IF alone THEN Idle ELSE task[t]]
    /\ UNCHANGED <<srv, worth, store, late, paid, reported, alone>>

\* derive_next_secret reads the depth ...
ReadDepth(m) ==
    /\ miner[m].pc = "read"
    /\ store.depth["MINING"] \in Depth
    /\ miner' = [miner EXCEPT ![m] = [@ EXCEPT !.pc = "advance",
                                               !.depth = store.depth["MINING"]]]
    /\ UNCHANGED <<vars, reported, alone>>

\* Mutant: the depth is left for store_directly to advance.
DepthKept(m) ==
    LET w == miner[m] IN
    /\ w.pc = "advance"
    /\ miner' = [miner EXCEPT ![m] =
         IF w.mined = NoCoins
         THEN [w EXCEPT !.pc = IF w.subsidy > 0 THEN "read" ELSE "report",
                        !.mined = Coin(<<"MINING", w.depth>>, w.reward)]
         ELSE [w EXCEPT !.pc = "report",
                        !.extra = Coin(<<"MINING", w.depth>>, w.subsidy)]]
    /\ UNCHANGED <<vars, reported, alone>>

\* ... and writes it back, plus one, in a separate access.
SetDepth(m) ==
    LET w == miner[m] IN
    /\ w.pc = "advance"
    /\ store' = set_depth(store, "MINING", w.depth + 1)
    /\ miner' = [miner EXCEPT ![m] =
         IF w.mined = NoCoins
         THEN [w EXCEPT !.pc = IF w.subsidy > 0 THEN "read" ELSE "report",
                        !.mined = Coin(<<"MINING", w.depth>>, w.reward)]
         ELSE [w EXCEPT !.pc = "report",
                        !.extra = Coin(<<"MINING", w.depth>>, w.subsidy)]]
    /\ UNCHANGED <<srv, worth, task, late, paid, reported, alone>>

\* The server mints what a report lists, if none of it exists.
Mint(coins) ==
    /\ \A s \in Listed(coins) : ~Known(s)
    /\ srv' = [s \in Secret |-> IF s \in Listed(coins) THEN "unspent" ELSE srv[s]]
    /\ worth' = Updated(worth, coins)

ReportAccepted(m) ==
    /\ miner[m].pc = "report"
    /\ Mint(ReportOf(m))
    /\ MinerGoto(m, "store")
    /\ UNCHANGED <<store, task, late, paid, reported, alone>>

\* The target has moved, the secret exists, the report is too old, ...
ReportRefused(m) ==
    /\ miner[m].pc = "report"
    /\ miner' = [miner EXCEPT ![m] = Rest]
    /\ UNCHANGED <<vars, reported, alone>>

StoreMined(m) ==
    /\ miner[m].pc = "store"
    /\ \E s \in Listed(miner[m].mined) : store_directly(s, miner[m].mined[s])
    /\ miner' = [miner EXCEPT ![m] = Rest]
    /\ UNCHANGED <<srv, worth, task, late, paid, reported, alone>>

----------------------------------------------------------------------------
(* Bounds and failures *)

\* Bound: a mine() that would need a depth past MaxDepth is not followed.
MinePastBounds(m) ==
    /\ miner[m].pc = "read"
    /\ store.depth["MINING"] > MaxDepth
    /\ miner' = [miner EXCEPT ![m] = Rest]
    /\ UNCHANGED <<vars, reported, alone>>

LeftBehind(reports) ==
    /\ reported' \in {reported, reported \cup reports}
    /\ Cardinality(reported') <= MaxLate

\* The client times out, or the answer is lost.
MineGivesUp(m) ==
    /\ Faults
    /\ miner[m].pc \in {"report", "store"}
    /\ LeftBehind(IF miner[m].pc = "report" THEN {ReportOf(m)} ELSE {})
    /\ miner' = [miner EXCEPT ![m] = Rest]
    /\ UNCHANGED <<vars, alone>>

\* A report reaches the server after its caller has given up.
LateReport(coins) ==
    /\ coins \in reported
    /\ reported' = reported \ {coins}
    /\ Mint(coins) \/ UNCHANGED ledgerVars
    /\ UNCHANGED <<store, task, late, paid, miner, alone>>

\* The process stops: the miners with it.
MinerCrash ==
    /\ Faults
    /\ ~(AllAtRest /\ NoMining)
    /\ Abandoned({RequestOf(t) : t \in {u \in Task : task[u].pc \in Sent}})
    /\ LeftBehind({ReportOf(m) : m \in {n \in Mining : miner[n].pc = "report"}})
    /\ task' = [t \in Task |-> Idle]
    /\ miner' = [m \in Mining |-> Rest]
    /\ UNCHANGED <<srv, worth, store, paid, alone>>

Mine(m) ==
    \/ MineBegin(m) \/ ReadDepth(m) \/ SetDepth(m)
    \/ ReportAccepted(m) \/ ReportRefused(m) \/ StoreMined(m)
    \/ MinePastBounds(m) \/ MineGivesUp(m)

WalletStep ==
    /\ \/ alone /\ NoMining /\ \E t \in Task : Call(t)
       \/ ~alone /\ \E t \in Task : RecoverBegin(t)
       \/ Progress
    /\ UNCHANGED <<miner, reported, alone>>

MinerNext ==
    \/ WalletStep
    \/ \E m \in Mining : Mine(m)
    \/ \E coins \in reported : LateReport(coins)
    \/ MinerCrash

MinerSpec == MinerInit /\ [][MinerNext]_minerVars

----------------------------------------------------------------------------
(* Properties *)

\* Every variable has its type.
MinerTypeOK ==
    /\ TypeOK
    /\ miner \in [Mining -> Working]
    /\ reported \subseteq Coins
    /\ alone \in BOOLEAN

\* The secrets mine() has taken and the server may yet mint.
Pending(s) ==
    \/ \E m \in Mining : miner[m].pc # "rest" /\ s \in Listed(ReportOf(m))
    \/ \E coins \in reported : s \in Listed(coins)

\* Every secret the server has minted or may yet mint is below the recorded
\* depth, whatever was refused, lost or recovered meanwhile: a recover() in
\* this wallet looks at it, and no later mine() takes it again.
RewardsCovered ==
    \A d \in Depth :
        Known(<<"MINING", d>>) \/ Pending(<<"MINING", d>>) =>
            d < store.depth["MINING"]

\* One caller that makes every call in turn, mining included, has all its money
\* after a recover(), past the depths refused reports have burned.
RecoverCompletesAlone == alone => RecoverCompletes

\* What the run checks of a single miner.
MinerInv == MinerTypeOK /\ RewardsCovered

\* CHANGELOG.md, "derive_next_secret atomicity: Read + increment wrapped in a
\* transaction": no two calls of mine() work on the same secret.
SecretsNotShared ==
    \A m, n \in Mining :
        m # n /\ miner[m].pc # "rest" /\ miner[n].pc # "rest" =>
            Listed(ReportOf(m)) \cap Listed(ReportOf(n)) = {}
============================================================================
