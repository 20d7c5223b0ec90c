-------------------------- MODULE TcpSecureChannel --------------------------
(***************************************************************************)
(* securechannel/opcua_tcpsecurechannel.c: the secure channel object, one  *)
(* on either side of a connection, and the life of its security tokens.    *)
(*                                                                         *)
(* An operator takes the channel as it was under hSyncAccess and gives the *)
(* channel the function leaves.  A keyset is named by the token it was     *)
(* derived for, so a side that knows a token can read what is secured with *)
(* it.  Token 0 is the zero OpcUa_MemSet leaves: no token yet.             *)
(***************************************************************************)
EXTENDS Naturals

ChannelStates == {"Unknown", "Opened", "Closed"}

Channel == [State : ChannelStates, Current : Nat, Previous : Nat,
            bCurrentTokenActive : BOOLEAN, NextTokenId : Nat]

Create == [State |-> "Unknown", Current |-> 0, Previous |-> 0,
           bCurrentTokenActive |-> FALSE, NextTokenId |-> 1]

Open(ch, token) ==
    [ch EXCEPT !.State = "Opened", !.Current = token, !.bCurrentTokenActive = TRUE]

\* Mutated form of Renew: the previous token is not kept.
RenewForgets(ch, token) ==
    [ch EXCEPT !.State = "Opened", !.Current = token, !.bCurrentTokenActive = FALSE]

\* Renew does not look at State: it opens a closed channel again.
Renew(ch, token) ==
    [ch EXCEPT !.State = "Opened", !.Previous = ch.Current, !.Current = token,
               !.bCurrentTokenActive = FALSE]

Close(ch) == [ch EXCEPT !.State = "Closed"]

\* The token of GenerateSecurityToken and RenewSecurityToken, and the channel after.
NewToken(ch)  == ch.NextTokenId
TakeToken(ch) == [ch EXCEPT !.NextTokenId = @ + 1]

\* GetSecuritySet finds keys for a current or a previous token.  A message under
\* the current token is what activates it.
Knows(ch, token) == token \in {ch.Current, ch.Previous}

GetSecuritySet(ch, token) ==
    IF token = ch.Current THEN [ch EXCEPT !.bCurrentTokenActive = TRUE] ELSE ch

\* GetCurrentSecuritySet: the token to send under.
SendToken(ch) == IF ch.bCurrentTokenActive THEN ch.Current ELSE ch.Previous
=============================================================================
