------------------------------- MODULE Online -------------------------------
(***************************************************************************)
(* The on-line permission of an Enhanced Title, from src/online.rs: the    *)
(* player sends a nonce with the title it asks for, the Remote Server      *)
(* answers with one message, setPermission verifies it against the values  *)
(* the player holds, or the Title Key is recovered from it.  Messages are  *)
(* delayed, repeated, crossed and lost.  The server and the transport are  *)
(* outside the crate: of them only the message is the crate's.             *)
(***************************************************************************)
EXTENDS SymbolicAes

CONSTANTS
    OnlineVolumes,   \* volumes with Enhanced Titles
    Titles,
    Nonces,
    NoTitle

VARIABLES
    asked,       \* the player's open request: volume, title and nonce
    requests,    \* every request that left the player
    messages,    \* every message the server sent, with the request it answers
    opened       \* what the latest message did: the title it opened, the key

onlineVars == <<asked, requests, messages, opened>>

Kvu(v) == Atom(<<"Kvu", v>>)
Kt(v, t) == Atom(<<"Kt", v, t>>)
OnlineVolumeId(v) == Atom(<<"IDv", v>>)
TitleBytes(t) == Atom(<<"title", t>>)
Nonce(n) == Atom(<<"nonce", n>>)

\* title_binding_hash.
TitleBindingHash(volume_id, title) == AesH(<<volume_id, title>>)

\* permission_plaintext.
PermissionPlaintext(kt, nonce, volume_id, title) ==
    Xor(kt, Xor(nonce, TitleBindingHash(volume_id, title)))

\* Faulty variant: the nonce is left out.
MessageWithoutNonce(kvu, kt, nonce, volume_id, title) ==
    Encrypt(kvu, PermissionPlaintext(kt, {}, volume_id, title))

\* enhanced_title_key_message.
EnhancedTitleKeyMessage(kvu, kt, nonce, volume_id, title) ==
    Encrypt(kvu, PermissionPlaintext(kt, nonce, volume_id, title))

\* recover_enhanced_title_key.
RecoverEnhancedTitleKey(kvu, message, nonce, volume_id, title) ==
    Xor(Decrypt(kvu, message), Xor(nonce, TitleBindingHash(volume_id, title)))

\* verify_enhanced_permission.
VerifyEnhancedPermission(kvu, kt, nonce, volume_id, title, message) ==
    EnhancedTitleKeyMessage(kvu, kt, nonce, volume_id, title) = message
-----------------------------------------------------------------------------
NoRequest == [volume |-> NoTitle, title |-> NoTitle, nonce |-> NoTitle]
NotOpened == [request |-> NoRequest, by |-> NoRequest, accepted |-> FALSE, key |-> {}]

\* A new request replaces the one before it; a nonce is not drawn twice.
Ask(v, t, n) ==
    /\ \A r \in requests : r.nonce # n
    /\ asked' = [volume |-> v, title |-> t, nonce |-> n]
    /\ requests' = requests \cup {asked'}
    /\ opened' = NotOpened
    /\ UNCHANGED messages

MessageFor(r) ==
    EnhancedTitleKeyMessage(Kvu(r.volume), Kt(r.volume, r.title), Nonce(r.nonce),
        OnlineVolumeId(r.volume), TitleBytes(r.title))

\* The server grants a request, once or more often, at any later time.
Grant(r) ==
    /\ r \in requests /\ r \notin messages
    /\ messages' = messages \cup {r}
    /\ UNCHANGED <<asked, requests, opened>>

\* A message arrives, whichever request it answers: verified against Kt, and
\* the key recovered from it.
Receive(r) ==
    /\ r \in messages
    /\ asked # NoRequest
    /\ opened' = [request |-> asked, by |-> r,
          accepted |-> VerifyEnhancedPermission(Kvu(asked.volume),
              Kt(asked.volume, asked.title), Nonce(asked.nonce),
              OnlineVolumeId(asked.volume), TitleBytes(asked.title), MessageFor(r)),
          key |-> RecoverEnhancedTitleKey(Kvu(asked.volume), MessageFor(r),
              Nonce(asked.nonce), OnlineVolumeId(asked.volume), TitleBytes(asked.title))]
    /\ UNCHANGED <<asked, requests, messages>>

OnlineInit ==
    /\ asked = NoRequest
    /\ requests = {} /\ messages = {}
    /\ opened = NotOpened

OnlineNext ==
    \/ \E v \in OnlineVolumes, t \in Titles, n \in Nonces : Ask(v, t, n)
    \/ \E r \in requests : Grant(r)
    \/ \E r \in messages : Receive(r)
-----------------------------------------------------------------------------
(* What holds of it *)

\* A permission opens the title the player asks for now only if the server
\* granted that very request: not one of an earlier request for the same title,
\* nor of another title or volume, however late or often it arrives.  The key
\* recovered from it is the title's under the same condition.
OnlyTheAnsweredRequestOpens ==
    opened # NotOpened =>
        /\ opened.accepted <=> opened.by = opened.request
        /\ opened.key = Kt(opened.request.volume, opened.request.title)
              <=> opened.by = opened.request
=============================================================================
