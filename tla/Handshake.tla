------------------------------- MODULE Handshake -------------------------------
(***************************************************************************)
(* The handshake (protocol/negotiation.py, auth.py): up to two methods of  *)
(* authentication, each on a connection of its own, the session select     *)
(* prompt of a host where somebody else is logged in, a second connection  *)
(* for an alternative session, the cipher and the media offer.             *)
(*                                                                         *)
(* Connections are numbered.  A key is the number of the connection it was *)
(* agreed on; the arithmetic of SRP and RSA is external.  The host         *)
(* (external) prompts if its console belongs to another user, sooner or    *)
(* later, and parks the connection until the prompt is answered.           *)
(***************************************************************************)
EXTENDS Integers

CONSTANTS
  Queries,      (* _DEGENERATE_RETRY_LIMIT                                    *)
  NoKey

HandshakeAssumption == Queries \in Nat /\ NoKey \notin Nat

VARIABLES
  stage,      (* place of connect_and_negotiate                               *)
  socket,     (* number of the last connection opened                         *)
  unclosed,   (* connections not closed                                       *)
  primary, method, (* "srp" or "nonsrp": configured, and tried now            *)
  again,      (* the fallback is tried                                        *)
  redo,       (* the second TCP of an alternative session                     *)
  forced, alt,(* mode configured: "ask", "share" or "alt"; alt_session        *)
  elsewhere,  (* another user is at the console: the host prompts             *)
  granted,    (* what the host granted on this connection: "none", "share", "alt" *)
  altDisplay, (* the display was configured for the login of an alt user      *)
  ecbKey,     (* ecb_key                                                      *)
  cipherKey,  (* the key of the StreamCipher                                  *)
  used,       (* history: <<connection, key>> of what was sent under a key    *)
  asks        (* offers sent                                                  *)

hsVars == <<stage, socket, unclosed, primary, method, again, redo, forced, alt,
            elsewhere, granted, altDisplay, ecbKey, cipherKey, used, asks>>
configVars == <<primary, forced, elsewhere>>
sessionVars == <<alt, redo>>
laterVars == <<granted, altDisplay, cipherKey, used, asks>>

Goto(from, to) == stage = from /\ stage' = to

-----------------------------------------------------------------------------
(* Authentication, _phase_auth *)

(* _open_socket_and_handshake: TCP, RFB version, security types *)
OpenSocket ==
  /\ Goto("open", "rsa1")
  /\ socket' = socket + 1 /\ unclosed' = unclosed \cup {socket'}
  /\ granted' = "none"
  /\ UNCHANGED <<configVars, sessionVars, method, again, ecbKey, altDisplay, cipherKey, used, asks>>

AuthStep(from, to) ==
  /\ Goto(from, to)
  /\ UNCHANGED <<socket, unclosed, configVars, sessionVars, method, again, ecbKey, laterVars>>

Rsa1Init ==
  \/ method = "srp" /\ AuthStep("rsa1", "modulus")
  \/ method = "nonsrp" /\ AuthStep("rsa1", "credentials")

SendNonsrpCredentials == AuthStep("credentials", "result")
SendSrpModulus == AuthStep("modulus", "challenge")
ReadSrpChallenge == AuthStep("challenge", "proof")
SendSrpProof == AuthStep("proof", "result")

(* A block of the wrong length, a challenge that is short or malformed, a  *)
(* result that is not 0: the other method is tried, on a new connection.   *)
AuthFails ==
  /\ stage \in {"modulus", "challenge", "result"}
  /\ stage = "result" \/ method = "srp"
  /\ IF again
     THEN stage' = "failed" /\ UNCHANGED <<method, again, unclosed>>
     ELSE /\ stage' = "open" /\ again' = TRUE
          /\ method' = IF method = "srp" THEN "nonsrp" ELSE "srp"
          /\ unclosed' = unclosed \ {socket}
  /\ UNCHANGED <<socket, configVars, sessionVars, ecbKey, laterVars>>

(* Slip: the second connection keeps the key of the first. *)
AuthSucceedsSlip ==
  /\ Goto("result", "init")
  /\ ecbKey' = IF redo THEN ecbKey ELSE socket
  /\ UNCHANGED <<socket, unclosed, configVars, sessionVars, method, again, laterVars>>

AuthSucceeds ==
  /\ Goto("result", "init") /\ ecbKey' = socket
  /\ UNCHANGED <<socket, unclosed, configVars, sessionVars, method, again, laterVars>>

-----------------------------------------------------------------------------
(* Session select *)

ClientInit == AuthStep("init", IF redo THEN "prompt" ELSE "peek")

(* _peek_ss_prompt within its two seconds; a mode that was not forced is   *)
(* asked for.  An alternative session starts again on a second connection. *)
PeekPrompt ==
  /\ stage = "peek" /\ elsewhere
  /\ alt' \in IF forced = "ask" THEN BOOLEAN ELSE {alt}
  /\ IF alt'
     THEN /\ stage' = "open" /\ redo' = TRUE /\ unclosed' = unclosed \ {socket}
          /\ method' = primary /\ again' = FALSE
     ELSE stage' = "prompt" /\ UNCHANGED <<redo, unclosed, method, again>>
  /\ UNCHANGED <<socket, configVars, ecbKey, laterVars>>

(* No prompt, or not in time. *)
PeekNothing == AuthStep("peek", "display")

(* _phase_session_select: an alternative session sends the credentials     *)
(* under the key.                                                          *)
AnswerPrompt ==
  /\ Goto("prompt", "ack")
  /\ used' = IF alt THEN used \cup {<<socket, ecbKey>>} ELSE used
  /\ UNCHANGED <<socket, unclosed, configVars, sessionVars, method, again, ecbKey,
                 granted, altDisplay, cipherKey, asks>>

(* Not in time when it is read again, half a second: no answer is sent.    *)
PromptIsLate == AuthStep("prompt", "display")

Acknowledged ==
  /\ Goto("ack", "display")
  /\ granted' = IF alt THEN "alt" ELSE "share"
  /\ UNCHANGED <<socket, unclosed, configVars, sessionVars, method, again, ecbKey,
                 altDisplay, cipherKey, used, asks>>

-----------------------------------------------------------------------------
(* Display, cipher and offer *)

(* _phase_handshake_plaintext, or its variant for an alternative session   *)
ConfigureDisplay ==
  /\ Goto("display", "enc1103") /\ altDisplay' = alt
  /\ UNCHANGED <<socket, unclosed, configVars, sessionVars, method, again, ecbKey,
                 granted, cipherKey, used, asks>>

(* _phase_enable_enc1103: a host that waits for an answer to its prompt    *)
(* advertises nothing.                                                     *)
EnableEnc1103 ==
  /\ Goto("enc1103", "offer")
  /\ elsewhere => granted # "none"
  /\ cipherKey' = ecbKey /\ used' = used \cup {<<socket, ecbKey>>}
  /\ UNCHANGED <<socket, unclosed, configVars, sessionVars, method, again, ecbKey,
                 granted, altDisplay, asks>>

NoEnc1103 ==
  /\ Goto("enc1103", "failed") /\ unclosed' = unclosed \ {socket}
  /\ UNCHANGED <<socket, configVars, sessionVars, method, again, ecbKey, laterVars>>

(* _phase_media_offer: asked again while the canvas is degenerate, and     *)
(* taken as it is after the last time.                                     *)
MediaOffer ==
  /\ stage = "offer" /\ asks' = asks + 1
  /\ \/ asks < Queries /\ stage' = "offer"
     \/ stage' = "done"
  /\ UNCHANGED <<socket, unclosed, configVars, sessionVars, method, again, ecbKey,
                 granted, altDisplay, cipherKey, used>>

(* Any read or write may time out or find the peer gone: the exception     *)
(* leaves the socket to its last reference.                                *)
SocketFails ==
  /\ stage \notin {"done", "failed"} /\ stage' = "failed"
  /\ UNCHANGED <<socket, unclosed, configVars, sessionVars, method, again, ecbKey, laterVars>>

-----------------------------------------------------------------------------

HsInit ==
  /\ stage = "open" /\ socket = 0 /\ unclosed = {}
  /\ primary \in {"srp", "nonsrp"} /\ method = primary /\ again = FALSE
  /\ forced \in {"ask", "share", "alt"} /\ alt = (forced = "alt") /\ redo = FALSE
  /\ elsewhere \in BOOLEAN
  /\ granted = "none" /\ altDisplay = FALSE
  /\ ecbKey = NoKey /\ cipherKey = NoKey /\ used = {} /\ asks = 0

HsNext ==
  \/ OpenSocket \/ Rsa1Init \/ SendNonsrpCredentials
  \/ SendSrpModulus \/ ReadSrpChallenge \/ SendSrpProof
  \/ AuthFails \/ AuthSucceeds
  \/ ClientInit \/ PeekPrompt \/ PeekNothing
  \/ AnswerPrompt \/ PromptIsLate \/ Acknowledged
  \/ ConfigureDisplay \/ EnableEnc1103 \/ NoEnc1103 \/ MediaOffer
  \/ SocketFails

HsSpec == HsInit /\ [][HsNext]_hsVars

-----------------------------------------------------------------------------

HsTypeOK ==
  /\ socket \in Nat /\ unclosed \subseteq 1 .. socket /\ asks \in 0 .. Queries + 1
  /\ {primary, method} \subseteq {"srp", "nonsrp"}
  /\ {again, redo, alt, altDisplay, elsewhere} \subseteq BOOLEAN
  /\ forced \in {"ask", "share", "alt"} /\ granted \in {"none", "share", "alt"}
  /\ {ecbKey, cipherKey} \subseteq Nat \cup {NoKey}

(* Whatever a connection carries under a key - the credentials of the      *)
(* alternative session, the control channel - is under the key agreed on   *)
(* that connection, through a fallback and through a second connection     *)
(* with a fallback of its own (_phase_auth, connect_and_negotiate).        *)
RightKey == \A u \in used : u[1] = u[2]

(* At most one connection is open at a time. *)
OneConnection == \A s \in unclosed : s = socket /\ stage # "open"

(* A handshake that ends well has the session the host granted.            *)
GrantedDisplay ==
  stage = "done" /\ elsewhere => /\ granted = IF alt THEN "alt" ELSE "share"
                                 /\ altDisplay = alt

HandshakeAgrees == RightKey /\ OneConnection /\ GrantedDisplay
=============================================================================
