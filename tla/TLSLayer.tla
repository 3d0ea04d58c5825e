------------------------------ MODULE TLSLayer ------------------------------
(***************************************************************************)
(* A stream session of module TLS together with its LayerTracker member:   *)
(* the calls of TLS that also drive the tracker, and convertBytesWritten().*)
(***************************************************************************)
EXTENDS TLS, LayerTracker

layerVars == <<d, io, peer, c, conn, sig, layer, added, specified, acked, reported>>

LayerInit == Init /\ TrackerInit

(* reset() with ResetSessionAndData or more resets the tracker *)
LayerStart ==
    /\ (\E h \in Hosts : startClient(h)) \/ startServer \/ Reset
    /\ layer' = NoLayer
    /\ added' = 0 /\ specified' = <<>> /\ acked' = 0 /\ reported' = 0

LayerWrite == Write /\ AddPlain(1)

LayerReadOutgoing ==
    /\ ReadOutgoing
    /\ SpecifyEncoded(io.to_net, io.to_net_encoded)

convertBytesWritten(n) ==
    /\ Finished(n)
    /\ sig' = "none" /\ UNCHANGED <<d, io, peer, c, conn>>

LayerOther ==
    /\ continueAfterStep \/ Close \/ WriteIncoming \/ Read \/ ReadUnprocessed
       \/ ResultsReady \/ doNextAction
       \/ \E s \in Signals : connectNotify(s) \/ disconnectNotify(s)
    /\ UNCHANGED trackerVars

LayerNext ==
    \/ LayerStart
    \/ LayerWrite
    \/ LayerReadOutgoing
    \/ \E n \in Sizes \ {0} : convertBytesWritten(n)
    \/ LayerOther

LayerSpec == LayerInit /\ [][LayerNext]_layerVars
==============================================================================
