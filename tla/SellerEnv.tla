------------------------------ MODULE SellerEnv ------------------------------
(***************************************************************************)
(* Sellers, environments and the bindings between them (seller_env): what  *)
(* context a request is answered in, which changes the console lets        *)
(* through, what the doctor says of a seller, and the credentials of a     *)
(* token request (auth/credentials.py), which resolves the context once    *)
(* for the refresh token, once for the keys and once for the URL while     *)
(* bindings are activated and sellers disabled.                            *)
(*                                                                         *)
(* The keys of both types of environment are assumed to be configured, so  *)
(* that they never fall back to the default ones.  A request is what       *)
(* EbayTokenService makes when it has no token of the seller in its cache: *)
(* the cache's key leaves the environment out, so that an earlier token is *)
(* handed out for either type, and is not modelled.  The API client asks   *)
(* with a seller and without a type (and none of its callers gives it a    *)
(* seller yet); the parameter for a type has no caller.                    *)
(***************************************************************************)
EXTENDS Integers, Sequences, FiniteSetsExt

CONSTANTS
    Sellers,
    Environments,
    MaxBindings,    \* bound: the rows of bindings
    None

VARIABLES
    type,           \* environment profiles: sandbox or production
    enabled,        \* seller profiles: whether a seller is enabled
    bindings,       \* the rows of bindings, in the order of the table
    call            \* the last request: a change from the console, or for a token;
                    \* held is the types in which its seller was active during it

vars == <<type, enabled, bindings, call>>

Type == {"sandbox", "production"}

(* Whether the variable of a binding's refresh_token_ref holds a token: no  *)
(* reference, a reference to a variable that is not set, or one that is.    *)
TokenRef == {"none", "unset", "set"}

Binding == [seller : Sellers, environment : Environments, active : BOOLEAN, token : TokenRef]

(* What the settings of a console's process allow.                         *)
Setting == {"read_only", "mutations", "production_too"}

Asked == (Sellers \cup {None}) \X (Type \cup {None})

NoCall == [seller |-> None, type |-> None, at |-> "idle"]

Resolving == {"token", "keys", "url"}

Init ==
    /\ type \in [Environments -> Type]
    /\ enabled = [s \in Sellers |-> TRUE]
    /\ bindings = <<>>
    /\ call = NoCall

-----------------------------------------------------------------------------
(* The first row of a set of rows, or None.                                *)
FirstOf(rows) == IF rows = {} THEN None ELSE bindings[Min(rows)]

ListBySeller(s) == {i \in DOMAIN bindings : bindings[i].seller = s}

ListAllActive == {i \in DOMAIN bindings : bindings[i].active}

(* Mutated form: any binding of the seller will do.                        *)
FindAny(s, t) == FirstOf(ListBySeller(s))

FindByType(s, t) == FirstOf({i \in ListBySeller(s) : type[bindings[i].environment] = t})

(* Two active rows of a seller make the query raise: no binding either.    *)
GetActive(s) ==
    LET rows == ListBySeller(s) \cap ListAllActive
    IN IF Cardinality(rows) = 1 THEN FirstOf(rows) ELSE None

(* The context of a binding, or None for every way in which it raises.  A   *)
(* disabled environment is not looked at.                                   *)
ContextOf(b) ==
    IF b = None THEN None
    ELSE IF enabled[b.seller] THEN [seller |-> b.seller, type |-> type[b.environment]] ELSE None

(* Without a seller the type that is asked for is not looked at.           *)
Resolve(s, t) ==
    ContextOf(CASE s = None -> FirstOf(ListAllActive)
                [] s # None /\ t # None -> FindByType(s, t)
                [] OTHER -> GetActive(s))

(* The console falls back to the first active binding of all, and then to  *)
(* a made-up seller in the sandbox.                                        *)
WebContext(s, t) ==
    LET asked == Resolve(s, t)
        active == FirstOf(ListAllActive)
        other == IF active = None THEN None ELSE Resolve(active.seller, None)
    IN CASE asked # None -> asked
         [] asked = None /\ other # None -> other
         [] OTHER -> [seller |-> None, type |-> "sandbox"]

-----------------------------------------------------------------------------
(* The types a request may be resolved in: what it asks for, or those of   *)
(* its seller's active bindings.                                           *)
Offered(s, t, rows) ==
    IF t # None THEN {t}
    ELSE {type[rows[i].environment] : i \in {j \in DOMAIN rows : rows[j].seller = s /\ rows[j].active}}

(* A request that is under way remembers what its seller was active in.    *)
Hold(rows) ==
    call' = IF call.at \in Resolving
            THEN [call EXCEPT !.held = @ \cup Offered(call.seller, call.type, rows)]
            ELSE call

(* Rows as the repositories save them: one per seller and environment.     *)
Bind(b) ==
    /\ Len(bindings) < MaxBindings
    /\ \A i \in DOMAIN bindings : <<bindings[i].seller, bindings[i].environment>> # <<b.seller, b.environment>>
    /\ bindings' = Append(bindings, b)
    /\ Hold(bindings')
    /\ UNCHANGED <<type, enabled>>

(* An environment without a row of the seller deactivates them all.        *)
Activate(s, e) ==
    /\ bindings' = [i \in DOMAIN bindings |->
           IF bindings[i].seller = s THEN [bindings[i] EXCEPT !.active = bindings[i].environment = e]
                                     ELSE bindings[i]]
    /\ Hold(bindings')
    /\ UNCHANGED <<type, enabled>>

Enable(s, flag) ==
    /\ enabled[s] # flag
    /\ enabled' = [enabled EXCEPT ![s] = flag]
    /\ UNCHANGED <<type, bindings, call>>

CheckMutationAllowed(setting) == setting # "read_only"

ValidateSafety(context, form, setting, dry) ==
    /\ context.type = form
    /\ context.type = "production" => setting = "production_too" \/ dry

Follow(request) ==
    /\ call.at \in {"idle", "changed", "sent"}
    /\ call' = request
    /\ UNCHANGED <<type, enabled, bindings>>

(* The types of environment a form can give in some console.               *)
Permitted(context) ==
    {form \in Type : \E setting \in Setting, dry \in BOOLEAN :
        CheckMutationAllowed(setting) /\ ValidateSafety(context, form, setting, dry)}

(* The type is the form's, whose seller is only used to redirect; the      *)
(* context is that of the address's parameters, or a fallback.             *)
Post(s, t) ==
    LET context == WebContext(s, t)
    IN  \E form \in Permitted(context) :
            Follow([seller |-> context.seller, type |-> form, at |-> "changed"])

-----------------------------------------------------------------------------
(* Neither a seller nor a type: the default configuration.                 *)
Default(s, t) == s = None /\ t = None

(* The default token is that of no seller.  The binding is looked up again *)
(* by the context's type: a seller with two environments of one type gets  *)
(* the token of the first.                                                 *)
RefreshToken(s, t) ==
    LET context == Resolve(s, t)
        b == FindByType(context.seller, context.type)
    IN CASE Default(s, t) -> <<None, None>>
         [] ~Default(s, t) /\ context = None -> None
         [] OTHER -> CASE b.token = "set" -> <<b.seller, type[b.environment]>>
                       [] b.token = "unset" -> None
                       [] b.token = "none" -> <<None, None>>

KeysOf(s, t) ==
    CASE Default(s, t) -> "default"
      [] ~Default(s, t) /\ Resolve(s, t) = None -> None
      [] OTHER -> Resolve(s, t).type

GetToken(s, t) ==
    Follow([seller |-> s, type |-> t, at |-> "token", token |-> None, keys |-> None, url |-> None,
            held |-> Offered(s, t, bindings)])

(* One value is resolved; without one the request raises.                  *)
Resolved(field, value, next) ==
    /\ call' = IF value = None THEN NoCall ELSE [call EXCEPT ![field] = value, !.at = next]
    /\ UNCHANGED <<type, enabled, bindings>>

GetRefreshToken == call.at = "token" /\ Resolved("token", RefreshToken(call.seller, call.type), "keys")

GetClientCredentials == call.at = "keys" /\ Resolved("keys", KeysOf(call.seller, call.type), "url")

GetOauthUrl == call.at = "url" /\ Resolved("url", KeysOf(call.seller, call.type), "sent")

(* What the doctor reports: error when the context raises, fail without a  *)
(* token of the binding's own.  The URL it checks is the one it makes of   *)
(* the type itself.                                                        *)
Diagnose(s) ==
    LET context == Resolve(s, None)
    IN CASE context = None -> "error"
         [] context # None /\ FindByType(s, context.type).token # "set" -> "fail"
         [] OTHER -> "ok"

Next ==
    \/ \E b \in Binding : Bind(b)
    \/ \E s \in Sellers, e \in Environments : Activate(s, e)
    \/ \E s \in Sellers, flag \in BOOLEAN : Enable(s, flag)
    \/ \E a \in Asked : Post(a[1], a[2]) \/ GetToken(a[1], a[2])
    \/ GetRefreshToken
    \/ GetClientCredentials
    \/ GetOauthUrl

Spec == Init /\ [][Next]_vars

-----------------------------------------------------------------------------
(* Types of the variables (seller_env/models.py, auth/credentials.py).     *)
TypeOK ==
    /\ type \in [Environments -> Type]
    /\ enabled \in [Sellers -> BOOLEAN]
    /\ bindings \in Seq(Binding) /\ Len(bindings) <= MaxBindings
    /\ call.seller \in Sellers \cup {None} /\ call.type \in Type \cup {None}
    /\ call.at \in {"idle", "changed", "token", "keys", "url", "sent"}

KeysMatch ==
    call.at = "sent" /\ call.seller # None =>
        /\ call.keys \in call.held /\ call.url \in call.held
        /\ call.token \in {<<None, None>>} \cup ({call.seller} \X call.held)

DoctorRight ==
    \A s \in Sellers : Diagnose(s) = "ok" => RefreshToken(s, None) = <<s, Resolve(s, None).type>>

(* The keys, the URL and the token of a request for a seller's token, with *)
(* or without a type, are each of the type that was asked for or of one in *)
(* which the seller was active at some moment of the request, the token    *)
(* the seller's own or the default one: they can only differ when another  *)
(* binding of the seller was activated between two of the lookups, and     *)
(* then they may.  And a seller that the doctor finds well has a token of  *)
(* its own, also when two of its environments are of one type.             *)
CredentialsTrue == KeysMatch /\ DoctorRight
=============================================================================
