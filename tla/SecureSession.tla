---------------------------- MODULE SecureSession ----------------------------
(***************************************************************************)
(* What class TLS promises an application about the life of a session: the *)
(* order in which the signals of SecureLayer and TLS (qca_securelayer.h)   *)
(* may arrive.  A session is begun, negotiated, open, ending and over;     *)
(* decrypted data are announced in the last two only, step signals before  *)
(* them only, and closed() or error() is the last signal of a session.     *)
(*                                                                         *)
(* There is one exception.  A session that is cut short can leave behind   *)
(* decrypted data it had not announced yet.  They are announced at most    *)
(* once after its end, or lost in the next session, and no session leaves  *)
(* any that was never open.                                                *)
(***************************************************************************)
VARIABLES phase, signal,
          left   \* decrypted data not announced

sessionVars == <<phase, signal, left>>

Phases == {"idle", "negotiating", "open", "ending"}

Init == phase = "idle" /\ signal = "none" /\ ~left

Begin == phase' = "negotiating" /\ signal' = "none"

Abandon == phase' = "idle" /\ signal' = "none"

Silent == signal' = "none" /\ UNCHANGED phase

Negotiate ==
    /\ phase = "negotiating" /\ UNCHANGED phase
    /\ signal' \in {"hostNameReceived", "certificateRequested",
                    "peerCertificateAvailable", "readyReadOutgoing"}

Establish ==
    /\ phase = "negotiating" /\ phase' = "open"
    /\ signal' \in {"handshaken", "none"}

Transfer ==
    /\ phase \in {"open", "ending"} /\ UNCHANGED phase
    /\ signal' \in {"readyRead", "readyReadOutgoing"}

ShutDown ==
    /\ phase = "open" /\ phase' = "ending"
    /\ signal' \in {"readyRead", "readyReadOutgoing", "none"}

Finish == phase = "ending" /\ phase' = "idle" /\ signal' = "closed"

Fail == phase # "idle" /\ phase' = "idle" /\ signal' = "error"

Late == phase = "idle" /\ left /\ ~left' /\ signal' = "readyRead" /\ UNCHANGED phase

Next ==
    /\ \/ Begin
       \/ Abandon
       \/ Silent
       \/ Negotiate
       \/ Establish
       \/ Transfer
       \/ ShutDown
       \/ Finish
       \/ Fail
       \/ Late
    /\ left' => left \/ phase \in {"open", "ending"}

Spec == Init /\ [][Next]_sessionVars
==============================================================================
