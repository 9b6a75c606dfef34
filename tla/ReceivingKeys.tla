---------------------------- MODULE ReceivingKeys ---------------------------
(***************************************************************************)
(* The private store of receiving keys: one advertisement for every        *)
(* locking key, with the secret of the key when it is known; one rotation  *)
(* and one mint.  An advertisement is a record of locking key, time and    *)
(* mint; a well-formed nutzap one of the locking key and mint of its       *)
(* proofs.                                                                 *)
(***************************************************************************)
EXTENDS Naturals, FiniteSets

NewestInfo(infos) == CHOOSE i \in infos : \A j \in infos : j.at <= i.at
CurrentInfo(keys) == NewestInfo({k.info : k \in keys})

\* remember refuses another mint and a third key, and never forgets a secret.
MayRemember(keys, info) ==
    /\ \A k \in keys : k.info.mint = info.mint
    /\ (\E k \in keys : k.info.lock = info.lock) \/ Cardinality(keys) < 2
Remember(keys, info, secret) ==
    LET old == {k \in keys : k.info.lock = info.lock}
    IN  (keys \ old) \cup {[info |-> NewestInfo({info} \cup {k.info : k \in old}),
                            secret |-> secret \/ \E k \in old : k.secret]}

\* validateNutzap: the proofs are locked to the key of this advertisement.
ValidNutzap(zap, info) == zap.lock = info.lock /\ zap.mint = info.mint

\* receiveWithReceivingKeys: the advertisement the nutzap answers decides.
KeyFor(keys, zap) ==
    LET fit == {k \in keys : ValidNutzap(zap, k.info)}
    IN  IF fit = {} THEN "throws"
        ELSE IF \E k \in fit : k.secret THEN "receives" ELSE "recovery-blocked"
=============================================================================
