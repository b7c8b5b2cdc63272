------------------------------- MODULE MCParts --------------------------------
(***************************************************************************)
(* The parts that share no state with one another, side by side: the       *)
(* rollback witness, the registry, the webhooks, the HTTP server and the   *)
(* repacks of depot; backchannel and warpad; the sealed rounds and drops;  *)
(* ipns-publisher and a walk of its DHT engine; the index of               *)
(* s3-ipfs-adapter.  A behaviour is one of them at work, with the others   *)
(* where they start, so that TLC checks all of them in one run.            *)
(***************************************************************************)
EXTENDS DepotWitness, DepotRegistry, DepotHooks, DepotServe, DepotMerge,
        Backchannel, Warpad, SealedRounds, SealedDrops, MCIpns, IpnsWalk, BucketIndex

CONSTANTS
    Parts,      \* the parts a run looks at
    PTogether   \* bound: lines typed and faults in warpad, together
VARIABLE part  \* the one at work

partsVars == <<part, wvars, gvars, hVars, sVars, mergeVars, cVars, pVars, rVars, dVars,
               iVars, kVars, bVars>>

-------------------------------------------------------------------------------
\* What clients ask of the HTTP server: a request that is answered before its
\* body is read and another behind it, a fetch, a push.
AskInfo == [plan |-> "respond", body |-> 0, pulls |-> 0]
AskRefused == [plan |-> "respond", body |-> 1, pulls |-> 0]
AskFetch == [plan |-> "buffer", body |-> 3, pulls |-> 1]
AskPush == [plan |-> "stream", body |-> 2, pulls |-> 2]
MCScripts == {<<AskRefused, AskInfo>>, <<AskFetch>>, <<AskPush>>}

\* Auctions; draws and surveys that close at a deadline before, at or without the
\* end of their time; and a poll.
Asked(k, d, t, p, m) == [kind |-> k, deadline |-> d, ttl |-> t, param |-> p, most |-> m]
MCRounds == {Asked("first", 2, 0, 2, 3), Asked("second", 2, 0, 2, 3),
             Asked("draw", 2, 5, 2, 3), Asked("draw", 2, 2, 2, 3), Asked("draw", 0, 3, 2, 3),
             Asked("survey", 2, 5, 3, 5), Asked("poll", 0, 3, 0, 3)}

\* dead-drop's drops, failsafe's capsules and switches, quorum's, each for one or
\* two readers.
Kept(m, g, w, t, n, r) == [mode |-> m, gate |-> g, window |-> w, ttl |-> t, need |-> n, reads |-> r]
MCDrops == {Kept("plain", 0, 0, 2, 0, 2), Kept("capsule", 2, 2, 0, 0, 2),
            Kept("switch", 2, 2, 0, 0, 1), Kept("quorum", 0, 2, 2, 2, 2)}

\* What the peers of the DHT say of others, with their address or without, and the record
\* some hold.
Known(p) == [peer |-> p, addressed |-> TRUE]
Named(p) == [peer |-> p, addressed |-> FALSE]
MCTells == <<{{Known(2)}, {}}, {{Known(1), Known(3)}, {}}, {{Named(1), Known(4)}, {}},
             {{Known(2), Known(3)}, {Known(5)}}, {{Known(1)}, {}}>>
MCHolds == <<0, 1, 0, 2, 0>>

-------------------------------------------------------------------------------
\* Only the part at work has a choice to start from.
PartsInit ==
    /\ part \in Parts
    /\ WInit /\ GInit /\ HInit /\ SInit /\ MergeInit /\ CInit /\ PInit /\ RInit /\ DInit
    /\ IInit /\ KInit /\ BInit
    /\ part # "serve" => sScript = [c \in SConns |-> CHOOSE script \in SScripts : TRUE]
    /\ part # "rounds" => rSetup = CHOOSE setup \in RSetups : TRUE
    /\ part # "drops" => dMode = CHOOSE mode \in {s.mode : s \in DSetups} : TRUE
    /\ part # "publisher" => /\ iSetup = CHOOSE setup \in ISetups : TRUE
                             /\ iSource = CHOOSE value \in IValues : TRUE
    /\ part # "walk" => kDht.job = "publish"
    /\ part # "index" => bBucket = [k \in BKeys |-> 0]

PartsNext ==
    \/ /\ part = "witness" /\ WNext
       /\ UNCHANGED <<part, gvars, hVars, sVars, mergeVars, cVars, pVars, rVars, dVars, iVars, kVars, bVars>>
    \/ /\ part = "registry" /\ GNext
       /\ UNCHANGED <<part, wvars, hVars, sVars, mergeVars, cVars, pVars, rVars, dVars, iVars, kVars, bVars>>
    \/ /\ part = "hooks" /\ HNext
       /\ UNCHANGED <<part, wvars, gvars, sVars, mergeVars, cVars, pVars, rVars, dVars, iVars, kVars, bVars>>
    \/ /\ part = "serve" /\ SNext
       /\ UNCHANGED <<part, wvars, gvars, hVars, mergeVars, cVars, pVars, rVars, dVars, iVars, kVars, bVars>>
    \/ /\ part = "merge" /\ MergeNext /\ (pushes' # pushes => Rested)
       /\ UNCHANGED <<part, wvars, gvars, hVars, sVars, cVars, pVars, rVars, dVars, iVars, kVars, bVars>>
    \/ /\ part = "backchannel" /\ CNext
       /\ UNCHANGED <<part, wvars, gvars, hVars, sVars, mergeVars, pVars, rVars, dVars, iVars, kVars, bVars>>
    \/ /\ part = "warpad" /\ PNext /\ pCount'.typed + pCount'.faults <= PTogether
       /\ UNCHANGED <<part, wvars, gvars, hVars, sVars, mergeVars, cVars, rVars, dVars, iVars, kVars, bVars>>
    \/ /\ part = "rounds" /\ RNext
       /\ UNCHANGED <<part, wvars, gvars, hVars, sVars, mergeVars, cVars, pVars, dVars, iVars, kVars, bVars>>
    \/ /\ part = "drops" /\ DNext
       /\ UNCHANGED <<part, wvars, gvars, hVars, sVars, mergeVars, cVars, pVars, rVars, iVars, kVars, bVars>>
    \/ /\ part = "publisher" /\ INext
       /\ UNCHANGED <<part, wvars, gvars, hVars, sVars, mergeVars, cVars, pVars, rVars, dVars, kVars, bVars>>
    \/ /\ part = "walk" /\ KNext
       /\ UNCHANGED <<part, wvars, gvars, hVars, sVars, mergeVars, cVars, pVars, rVars, dVars, iVars, bVars>>
    \/ /\ part = "index" /\ BNext
       /\ UNCHANGED <<part, wvars, gvars, hVars, sVars, mergeVars, cVars, pVars, rVars, dVars, iVars, kVars>>

PartsSpec == PartsInit /\ [][PartsNext]_partsVars

\* What each part's own specification assumes, of the one at work.
PartsFairSpec ==
    /\ PartsSpec
    /\ \A s \in WServers :
           /\ WF_wvars(part = "witness" /\ WWork(s))
           /\ WF_wvars(part = "witness" /\ Recover(s))
           /\ WF_wvars(part = "witness" /\ Load(s))
    /\ WF_hVars(part = "hooks" /\ Tick)
    /\ WF_hVars(part = "hooks" /\ \E i \in DOMAIN hQueue : BackOffEnds(i))
    /\ WF_sVars(part = "serve" /\ SNext)
    /\ \A c \in SConns : SF_sVars(part = "serve" /\ Step /\ c \in Live /\ sConn'[c].phase = "gone")
    /\ \A c \in PTabs : WF_pVars(part = "warpad" /\ PageStep(c))
    /\ WF_iVars(part = "publisher" /\ ITick)
    /\ WF_iVars(part = "publisher" /\ (DhtReaches \/ DhtMisses))
    /\ WF_iVars(part = "publisher" /\ (Provide \/ ProvideFails))
    /\ WF_iVars(part = "publisher" /\ Republish)
    /\ WF_kVars(part = "walk" /\ Drive)
    /\ WF_bVars(part = "index" /\ BTick)

\* The types of the part at work; the others do not move.
PartsTypeOK ==
    /\ part \in Parts
    /\ part = "witness" => WTypeOK
    /\ part = "registry" => GTypeOK
    /\ part = "hooks" => HTypeOK
    /\ part = "serve" => STypeOK
    /\ part = "backchannel" => CTypeOK
    /\ part = "warpad" => PTypeOK
    /\ part = "rounds" => RTypeOK
    /\ part = "drops" => DTypeOK
    /\ part = "publisher" => ITypeOK
    /\ part = "walk" => KTypeOK
    /\ part = "index" => BTypeOK

-------------------------------------------------------------------------------
\* What has to happen, asked of the part at work.

\* Commits get witnessed, and false alarms end (DepotWitness).
WitnessesInTheEnd == part = "witness" => WitnessSettles

\* Every delivery that was queued is settled (DepotHooks).
DeliversInTheEnd == part = "hooks" => QueuedSettles

\* What the pushes hold comes back (DepotServe).
ReleasesInTheEnd == part = "serve" => ChargesEnd

\* What is typed is saved (Warpad).
SavesInTheEnd == part = "warpad" => TypedIsSaved

\* What is published reaches the delegates (IpnsPublisher).
PublishesInTheEnd == part = "publisher" => CatchesUp

\* A walk of the DHT ends before its deadline (IpnsWalk).
WalksInTheEnd == part = "walk" => WalkEnds

\* What is served becomes what the bucket holds (BucketIndex).
IndexedInTheEnd == part = "index" => IndexSettles
===============================================================================
