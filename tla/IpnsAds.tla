------------------------------- MODULE IpnsAds --------------------------------
(***************************************************************************)
(* The advertisement chain of ipns-publisher (ipns-publisher/src/          *)
(* provider.rs).  Every new root of the site becomes an advertisement that *)
(* links to the head before it; an indexer is told of the head and crawls  *)
(* the chain and the entries from this server.  The chain is in memory and *)
(* in a file of the volume.  A link is the hash of what it leads to, so an *)
(* advertisement is here the sequence of roots from its own back to the    *)
(* first of its chain, and the entries of a root are that root.            *)
(***************************************************************************)
EXTENDS Naturals, Sequences, FiniteSets

CONSTANTS
    IMaxChain,      \* advertisements kept (MAX_CHAIN, 32 in the code)
    IIndexers       \* the indexers, a sequence

ASSUME AdsAssumption == IMaxChain \in Nat \ {0} /\ Len(IIndexers) > 0

VARIABLES
    iAds,       \* Provider: chain (newest first), head, current_root, and the blocks it serves
    iAdTasks,   \* Provider.tasks
    iChainFile  \* /data/ipni-chain.json

adsVars == <<iAds, iAdTasks, iChainFile>>

NoAds == [chain |-> <<>>, head |-> <<>>, root |-> <<>>, ads |-> {}, entries |-> {}]
BuildOf(root) == [do |-> "build", of |-> root]
AnnounceTo(x) == [do |-> "announce", of |-> x]

AdsInit == iAds = NoAds /\ iAdTasks = <<>> /\ iChainFile = NoAds

\* announce_root, on the tasks: nothing for the root that is advertised already; else a
\* build takes the place of any other and goes first.
AnnounceRoot(root) ==
    IF iAds.root = <<root>> /\ iAds.head # <<>> THEN iAdTasks
    ELSE <<BuildOf(root)>> \o SelectSeq(iAdTasks, LAMBDA t : t.do # "build")

\* prune: the newest advertisements stay, each with the entries it links to.
Pruned(ads) ==
    LET chain == SubSeq(ads.chain, 1, IF Len(ads.chain) > IMaxChain THEN IMaxChain ELSE Len(ads.chain))
        kept == {chain[i] : i \in DOMAIN chain} \cap ads.ads
    IN  [ads EXCEPT !.chain = chain, !.ads = kept,
                    !.entries = {e \in @ : \E ad \in kept : Head(ad) = e}]

\* The chain with one more advertisement, linked to the head.
Advertised(root) ==
    LET ad == <<root>> \o iAds.head
    IN  Pruned([chain |-> <<ad>> \o iAds.chain, head |-> ad, root |-> <<root>>,
                ads |-> iAds.ads \cup {ad}, entries |-> iAds.entries \cup {root}])

\* do_build cannot list the blocks of the site.
BuildFails ==
    /\ iAdTasks # <<>> /\ Head(iAdTasks).do = "build"
    /\ iAdTasks' = Tail(iAdTasks)
    /\ UNCHANGED <<iAds, iChainFile>>

\* do_build: advertise, write the file (file says what becomes of it), and tell every
\* indexer later on.
Build(file) ==
    /\ iAdTasks # <<>> /\ Head(iAdTasks).do = "build"
    /\ iAds' = Advertised(Head(iAdTasks).of)
    /\ iAdTasks' = Tail(iAdTasks) \o [n \in DOMAIN IIndexers |-> AnnounceTo(IIndexers[n])]
    /\ iChainFile' = IF file = "written" THEN iAds' ELSE IF file = "torn" THEN NoAds ELSE iChainFile

\* do_announce: one request, whose outcome is only shown.
Announce ==
    /\ iAdTasks # <<>> /\ Head(iAdTasks).do = "announce"
    /\ iAdTasks' = Tail(iAdTasks)
    /\ UNCHANGED <<iAds, iChainFile>>

\* load_state, in a new process.
AdsReload(file) ==
    /\ iAds' = file
    /\ iAdTasks' = <<>>
    /\ iChainFile' = file

-------------------------------------------------------------------------------
\* What the chain is made of, and: whoever crawls from the head finds every
\* advertisement that is kept, linked to the next, with its entries (prune, load_state).
AdsOK ==
    /\ Len(iAds.chain) <= IMaxChain
    /\ iAds.head = IF iAds.chain = <<>> THEN <<>> ELSE Head(iAds.chain)
    /\ iAds.root = IF iAds.head = <<>> THEN <<>> ELSE <<Head(iAds.head)>>
    /\ \A i \in DOMAIN iAds.chain :
          /\ iAds.chain[i] \in iAds.ads /\ Head(iAds.chain[i]) \in iAds.entries
          /\ i < Len(iAds.chain) => Tail(iAds.chain[i]) = iAds.chain[i + 1]
    /\ \A i, j \in DOMAIN iAdTasks : i < j => iAdTasks[j].do = "announce"
===============================================================================
