---------------------------- MODULE OpenIDConnect ----------------------------
(***************************************************************************)
(* exchange_code() and what follows it for the providers of                *)
(* src/aegistry/factors/oauth2: OpenID Connect with a key set (oidc.py,    *)
(* google.py, apple.py), LINE with its verify endpoint (line.py) and       *)
(* GitHub, without ID tokens (github.py); then the profile that the        *)
(* callback route asks for (contrib/fastapi/oauth2.py).                    *)
(*                                                                         *)
(* A factor caches the discovery document and the key set in itself.  It   *)
(* may serve one request, as the documented wiring has it, or several.     *)
(* The provider is the environment: it answers or fails, and rotates its   *)
(* signing keys.  No ID token expires meanwhile; a code may be that of     *)
(* another flow, and its token then has another nonce.                     *)
(***************************************************************************)
CONSTANTS
    Callback, \* callbacks, from exchange_code() on
    KeySets,  \* factors that validate with the key set of their provider
    Line,     \* factors that ask LINE
    GitHub,   \* factors without ID tokens
    Key,      \* signing keys of the provider
    NoneYet   \* no ID token yet, no factor yet

Factor == KeySets \cup Line \cup GitHub

ASSUME FactorAssumption ==
    KeySets \cap Line = {} /\ KeySets \cap GitHub = {} /\ Line \cap GitHub = {}

\* An ID token: the key that signed it, and whether its nonce is that of the flow.
IDToken == [key: Key, own: BOOLEAN]

ASSUME NoneYetAssumption == NoneYet \notin IDToken \cup Factor

VARIABLES
    published, \* the keys at jwks_uri
    signing,   \* the one tokens are signed with
    document,  \* factors that hold the discovery document
    jwks,      \* _jwks of each factor, {} for None
    phase,     \* where each callback stands
    factor,    \* the factor it was given
    token,     \* the ID token it was given
    keys,      \* the key set the provider has sent it, {} for none yet
    retired,   \* history: keys no longer published
    declined   \* history: callbacks whose token get_id_token_claims refused

factorVars == <<document, jwks>>
callbackVars == <<phase, factor, token, keys>>
providerVars == <<published, signing, retired>>
oidcVars == <<factorVars, callbackVars, providerVars, declined>>

Ended == {"refused", "failed", "profiled", "anonymous"}
ExchangeStage ==
    {"idle", "posting", "validating", "verifying", "profiling", "fetching",
     "arriving", "accepted", "userinfo"} \cup Ended

OIDCInit ==
    /\ signing \in Key
    /\ published = {signing}
    /\ document = {}
    /\ jwks = [f \in Factor |-> {}]
    /\ phase = [r \in Callback |-> "idle"]
    /\ factor = [r \in Callback |-> NoneYet]
    /\ token = [r \in Callback |-> NoneYet]
    /\ keys = [r \in Callback |-> {}]
    /\ retired = {}
    /\ declined = {}

----------------------------------------------------------------------------
(* The provider *)

\* A key is published before it signs, and retired after.
Publish ==
    /\ \E k \in Key \ (published \cup retired) : published' = published \cup {k}
    /\ UNCHANGED <<factorVars, callbackVars, signing, retired, declined>>

Switch ==
    /\ \E k \in published \ {signing} : signing' = k
    /\ UNCHANGED <<factorVars, callbackVars, published, retired, declined>>

Retire ==
    /\ \E k \in published \ {signing} :
        /\ published' = published \ {k}
        /\ retired' = retired \cup {k}
    /\ UNCHANGED <<factorVars, callbackVars, signing, declined>>

----------------------------------------------------------------------------
(* The exchange *)

Enter(r, s) == phase' = [phase EXCEPT ![r] = s]

\* Mutation of Discover: the key set is fetched along with the document.
DiscoverWithKeys(r) ==
    /\ phase[r] = "idle"
    /\ \E f \in Factor :
        /\ factor' = [factor EXCEPT ![r] = f]
        /\ document' = document \cup ({f} \ GitHub)
        /\ jwks' = [jwks EXCEPT ![f] = IF f \in KeySets /\ @ = {} THEN published ELSE @]
    /\ Enter(r, "posting")
    /\ UNCHANGED <<token, keys, providerVars, declined>>

\* exchange_code() of the factor the wiring provides: the discovery document,
\* from its cache or fetched; GitHub has none.
Discover(r) ==
    /\ phase[r] = "idle"
    /\ \E f \in Factor :
        /\ factor' = [factor EXCEPT ![r] = f]
        /\ document' = document \cup ({f} \ GitHub)
    /\ Enter(r, "posting")
    /\ UNCHANGED <<jwks, token, keys, providerVars, declined>>

\* The token endpoint takes the code, of this flow or another, and its ID token
\* is to be checked.
PostCode(r) ==
    /\ phase[r] = "posting" /\ factor[r] \notin GitHub
    /\ \E own \in BOOLEAN :
            token' = [token EXCEPT ![r] = [key |-> signing, own |-> own]]
    /\ Enter(r, IF factor[r] \in Line THEN "verifying" ELSE "validating")
    /\ UNCHANGED <<factorVars, factor, keys, providerVars, declined>>

\* That of GitHub gives an access token only.
PostCodeGitHub(r) ==
    /\ phase[r] = "posting" /\ factor[r] \in GitHub
    /\ Enter(r, "profiling")
    /\ UNCHANGED <<factorVars, factor, token, keys, providerVars, declined>>

\* The profile tells the account at GitHub.
AskProfile(r) ==
    /\ phase[r] = "profiling"
    /\ Enter(r, "accepted")
    /\ UNCHANGED <<factorVars, factor, token, keys, providerVars, declined>>

\* LINE checks the token and the nonce, and line.py compares the nonce again.
Verify(r) ==
    /\ phase[r] = "verifying"
    /\ Enter(r, IF token[r].own THEN "accepted" ELSE "refused")
    /\ UNCHANGED <<factorVars, factor, token, keys, providerVars, declined>>

\* validate_id_token(): the key is in the set, and the nonce is that of the flow.
Validate(r, set) ==
    Enter(r, IF token[r].key \in set /\ token[r].own THEN "accepted" ELSE "refused")

\* _get_jwks() with a key set in the cache.
ValidateCached(r) ==
    /\ phase[r] = "validating"
    /\ jwks[factor[r]] # {}
    /\ Validate(r, jwks[factor[r]])
    /\ UNCHANGED <<factorVars, factor, token, keys, providerVars, declined>>

\* _get_jwks() without: the request is on its way to jwks_uri ...
FetchKeys(r) ==
    /\ phase[r] = "validating"
    /\ jwks[factor[r]] = {}
    /\ Enter(r, "fetching")
    /\ UNCHANGED <<factorVars, factor, token, keys, providerVars, declined>>

\* ... and is answered with the keys of that moment.
ServeKeys(r) ==
    /\ phase[r] = "fetching"
    /\ keys' = [keys EXCEPT ![r] = published]
    /\ Enter(r, "arriving")
    /\ UNCHANGED <<factorVars, factor, token, providerVars, declined>>

\* Mutation of StoreKeys: the key set is used and not kept.
StoreKeysNot(r) ==
    /\ phase[r] = "arriving"
    /\ Validate(r, keys[r])
    /\ UNCHANGED <<factorVars, factor, token, keys, providerVars, declined>>

\* The answer fills the cache, whatever is there by now, and validates the token.
StoreKeys(r) ==
    /\ phase[r] = "arriving"
    /\ jwks' = [jwks EXCEPT ![factor[r]] = keys[r]]
    /\ Validate(r, keys[r])
    /\ UNCHANGED <<document, factor, token, keys, providerVars, declined>>

\* The provider does not answer, or not with success: for an exchange that is the
\* end.
Fail(r) ==
    /\ phase[r] \in {"idle", "posting", "verifying", "profiling", "fetching", "arriving"}
    /\ Enter(r, "failed")
    /\ UNCHANGED <<factorVars, factor, token, keys, providerVars, declined>>

----------------------------------------------------------------------------
(* The profile, for which a failure is never fatal *)

\* get_id_token_claims() validates the token again, without the nonce: with what
\* the cache holds now, or the keys of this moment if there are none.
Claims(r) ==
    /\ phase[r] = "accepted" /\ factor[r] \in KeySets
    /\ LET cached == jwks[factor[r]]
       IN  IF token[r].key \in (IF cached = {} THEN published ELSE cached)
           THEN Enter(r, "profiled") /\ UNCHANGED declined
           ELSE Enter(r, "userinfo") /\ declined' = declined \cup {r}
    /\ UNCHANGED <<factorVars, factor, token, keys, providerVars>>

\* LINE is asked once more; GitHub has no ID token.
ClaimsByProvider(r) ==
    /\ phase[r] = "accepted" /\ factor[r] \notin KeySets
    /\ \/ factor[r] \in Line /\ Enter(r, "profiled")
       \/ Enter(r, "userinfo")
    /\ UNCHANGED <<factorVars, factor, token, keys, providerVars, declined>>

\* get_profile()
GetProfile(r) ==
    /\ phase[r] = "userinfo"
    /\ \E s \in {"profiled", "anonymous"} : Enter(r, s)
    /\ UNCHANGED <<factorVars, factor, token, keys, providerVars, declined>>

CallbackStep(r) ==
    \/ Discover(r)
    \/ PostCode(r)
    \/ PostCodeGitHub(r)
    \/ AskProfile(r)
    \/ Verify(r)
    \/ ValidateCached(r)
    \/ FetchKeys(r)
    \/ ServeKeys(r)
    \/ StoreKeys(r)
    \/ Fail(r)
    \/ Claims(r)
    \/ ClaimsByProvider(r)
    \/ GetProfile(r)

OIDCNext == (\E r \in Callback : CallbackStep(r)) \/ Publish \/ Switch \/ Retire

OIDCSpec == OIDCInit /\ [][OIDCNext]_oidcVars

----------------------------------------------------------------------------
(* Properties *)

\* Every variable has the type the code gives it; an accepted token is at hand,
\* and so is a key set that get_id_token_claims() can use.
OIDCTypeOK ==
    /\ published \subseteq Key
    /\ signing \in published
    /\ document \subseteq Factor
    /\ jwks \in [Factor -> SUBSET Key]
    /\ phase \in [Callback -> ExchangeStage]
    /\ factor \in [Callback -> Factor \cup {NoneYet}]
    /\ token \in [Callback -> IDToken \cup {NoneYet}]
    /\ keys \in [Callback -> SUBSET Key]
    /\ retired \subseteq Key
    /\ declined \subseteq Callback
    /\ \A r \in Callback : phase[r] = "accepted" /\ factor[r] \in KeySets =>
            token[r] # NoneYet /\ jwks[factor[r]] # {}

\* Another request has filled the cache of the factor with a set without the key.
Superseded(r) ==
    \E q \in Callback \ {r} :
        /\ factor[q] = factor[r]
        /\ keys[q] # {}
        /\ token[r].key \notin keys[q]

\* A token of this flow is refused only when its key was retired before the
\* keys were fetched, or when the factor is shared and another request's key set
\* is in the cache; what exchange_code() accepted, get_id_token_claims() refuses
\* only in the latter case.  A factor that serves one request never does.
RefusedOnlyByRotation ==
    \A r \in Callback :
        factor[r] \in KeySets =>
            /\ phase[r] = "refused" /\ token[r].own =>
                token[r].key \in retired \/ Superseded(r)
            /\ r \in declined => Superseded(r)
=============================================================================
