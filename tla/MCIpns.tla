------------------------------- MODULE MCIpns ---------------------------------
(***************************************************************************)
(* Small instances of IpnsPublisher for TLC.                               *)
(***************************************************************************)
EXTENDS IpnsPublisher

Deployment(delegates, dht, volume, known) ==
    [delegates |-> delegates, dht |-> dht, volume |-> volume, known |-> known]

\* Two delegates, without and with a volume; all there is, for a name others know; and
\* the DHT alone, which has to be asked.
MCSetups == {Deployment(<<"d", "e">>, FALSE, FALSE, NoRec),
             Deployment(<<"d", "e">>, FALSE, TRUE, NoRec),
             Deployment(<<"d">>, TRUE, TRUE, Rec(1, "b")),
             Deployment(<<>>, TRUE, FALSE, Rec(1, "b"))}

\* Delegates and a volume; and a delegate that knows the name, the DHT and no volume.
MCFew == {Deployment(<<"d", "e">>, FALSE, TRUE, NoRec),
          Deployment(<<"d">>, TRUE, FALSE, Rec(1, "b"))}

\* The DHT alone, for a new name.
MCAlone == {Deployment(<<>>, TRUE, FALSE, NoRec)}

MCIndexer == <<"x">>
===============================================================================
