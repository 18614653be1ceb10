---------------------------- MODULE TenancyConfig ----------------------------
(***************************************************************************)
(* The `Tenancy` builder, the template builder it starts, and the names     *)
(* that both hand to the server: a program configures one Tenancy, makes a  *)
(* policy from it, installs hooks on a pool and begins transactions on it.  *)
(*                                                                         *)
(* A name is a sequence of characters, of which the code and the server     *)
(* tell five classes apart: letters (and _), capital letters, digits, the   *)
(* dot, and all others.  The server keeps NameLimit bytes of an identifier  *)
(* (63 in PostgreSQL) and ignores the rest.                                 *)
(***************************************************************************)
EXTENDS Naturals, Sequences, Functions

CONSTANTS Tenants, NoTenant,
          NameLimit,  \* NAMEDATALEN - 1
          Names,      \* the names given to builders of one identifier
          GucNames,   \* the names given to Tenancy::guc
          Reserved,   \* the words that are none of the server's names, as `user`
          Helpers,    \* who hooks and begins: "Tenancy", or the "free" functions
          MaxCalls    \* bound: calls of builder methods

ASSUME ConfigAssumption ==
    /\ NoTenant \notin Tenants
    /\ NameLimit \in Nat \ {0} /\ MaxCalls \in Nat
    /\ Helpers \subseteq {"Tenancy", "free"}

VARIABLES
    tenancy,   \* the Tenancy, as built so far
    template,  \* the PolicyTemplate made from it, if any
    outcome,   \* "rejected": a builder panicked; "index": an empty list was read
    calls,     \* how many builder methods were called
    hooks,     \* the GUC name in the hooks of the pool, NoName without a pool
    lease,     \* the tenant of the scope that the pool's connection is used in
    asked,     \* the tenant that the open transaction was begun for
    set, loc   \* session-level and transaction-local value of each setting

built == <<tenancy, template, outcome, calls>>
used == <<hooks, lease, asked, set, loc>>
vars == <<built, used>>

NoName == <<>>
Letter == "a"
Upper == "A"
Digit == "1"
Dot == "."
Other == "?"
Characters == {Letter, Upper, Digit, Dot, Other}

ASSUME NamesAssumption ==
    /\ Names \subseteq Seq(Characters) /\ GucNames \subseteq Seq(Characters)
    /\ Reserved \subseteq Seq(Characters)

Bindings == Tenants \cup {NoTenant}

\* Other values of these three are told apart from them by their length.
Default == [guc |-> <<Letter, Dot, Letter>>, schemas |-> << <<Letter>> >>,
            tenant_column |-> <<Letter>>]
NoTemplate == [schema |-> NoName, table |-> NoName, policy_name |-> NoName,
               cast |-> NoName]

-----------------------------------------------------------------------------
(* Validation.                                                              *)

\* Wrong: one byte more than the server keeps.
validate_identifier_one_more(s) ==
    /\ s # <<>> /\ Len(s) <= NameLimit + 1
    /\ s[1] \in {Letter, Upper}
    /\ \A i \in 2 .. Len(s) : s[i] \in {Letter, Upper, Digit}

validate_identifier(s) ==
    /\ s # <<>> /\ Len(s) <= NameLimit
    /\ s[1] \in {Letter, Upper}
    /\ \A i \in 2 .. Len(s) : s[i] \in {Letter, Upper, Digit}

\* What str::split puts before and after a dot.
Dots(s) == {i \in DOMAIN s : s[i] = Dot}
Before(s, d) == SubSeq(s, 1, d - 1)
After(s, d) == SubSeq(s, d + 1, Len(s))

\* Exactly two parts.
validate_guc(s) ==
    \E d \in DOMAIN s :
        /\ Dots(s) = {d}
        /\ validate_identifier(Before(s, d)) /\ validate_identifier(After(s, d))

-----------------------------------------------------------------------------
(* What the server takes a name for.                                        *)

\* It reads capitals as small letters, and cuts an identifier.
Fold(s) == [i \in DOMAIN s |-> IF s[i] = Upper THEN Letter ELSE s[i]]
Cut(s) == SubSeq(s, 1, IF Len(s) <= NameLimit THEN Len(s) ELSE NameLimit)

\* The setting that set_config and current_setting mean, whose argument is text.
Setting(s) == Fold(s)

\* "name", in CREATE POLICY "name" ON "schema"."table"; NoName stands for a
\* syntax error.
Quoted(s) == IF Other \in Range(s) THEN NoName ELSE Cut(s)

\* part.part, in RESET; part, in a cast.  Longer paths do not arise.
Word(s) ==
    /\ s # <<>> /\ s[1] \in {Letter, Upper}
    /\ Range(s) \subseteq {Letter, Upper, Digit}
    /\ Fold(s) \notin Reserved
Bare(s) ==
    IF Word(s) THEN Cut(Fold(s))
    ELSE IF \E d \in Dots(s) : Word(Before(s, d)) /\ Word(After(s, d))
    THEN LET d == CHOOSE d \in Dots(s) : Word(Before(s, d)) /\ Word(After(s, d))
         IN  Cut(Fold(Before(s, d))) \o <<Dot>> \o Cut(Fold(After(s, d)))
    ELSE NoName

-----------------------------------------------------------------------------
(* Builders.                                                                *)

Init ==
    /\ tenancy = Default /\ template = NoTemplate /\ outcome = "ok" /\ calls = 0
    /\ hooks = NoName /\ lease = NoTenant /\ asked = NoTenant
    /\ set = <<>> /\ loc = <<>>

\* A builder method: it panics unless ok, and takes effect if it does not.
Call(ok) ==
    /\ outcome = "ok" /\ hooks = NoName /\ calls < MaxCalls
    /\ calls' = calls + 1
    /\ outcome' = IF ok THEN "ok" ELSE "rejected"
    /\ UNCHANGED used

\* Methods of Tenancy consume it: a template, which borrows it, is no more.
Configure(ok, t) ==
    /\ Call(ok)
    /\ tenancy' = IF ok THEN t ELSE tenancy
    /\ template' = NoTemplate

guc(name) == Configure(validate_guc(name), [tenancy EXCEPT !.guc = name])

\* Wrong: without its assertion on the list.
schemas_any(names) ==
    Configure(\A i \in DOMAIN names : validate_identifier(names[i]),
              [tenancy EXCEPT !.schemas = names])

\* schema(name) is schemas([name])
schemas(names) ==
    Configure(names # <<>> /\ \A i \in DOMAIN names : validate_identifier(names[i]),
              [tenancy EXCEPT !.schemas = names])

tenant_column(name) ==
    Configure(validate_identifier(name), [tenancy EXCEPT !.tenant_column = name])

policy_template(table) ==
    /\ outcome = "ok" /\ hooks = NoName /\ calls < MaxCalls
    /\ calls' = calls + 1
    /\ IF ~validate_identifier(table)
       THEN outcome' = "rejected" /\ template' = NoTemplate
       ELSE IF tenancy.schemas = <<>>
       THEN outcome' = "index" /\ template' = NoTemplate
       ELSE /\ template' = [NoTemplate EXCEPT !.schema = tenancy.schemas[1],
                                !.table = table, !.policy_name = <<Letter>>]
            /\ UNCHANGED outcome
    /\ UNCHANGED <<tenancy, used>>

\* PolicyTemplate::schema, policy_name and cast
Override(field, name) ==
    /\ template # NoTemplate /\ Call(validate_identifier(name))
    /\ template' = IF validate_identifier(name)
         THEN [template EXCEPT ![field] = name] ELSE NoTemplate
    /\ UNCHANGED tenancy

-----------------------------------------------------------------------------
(* Hooks and transactions, on one connection.                               *)

\* The setting that a helper names: its own Tenancy's, or the default one's.
GucOf(by) == IF by = "Tenancy" THEN tenancy.guc ELSE Default.guc

\* The settings of a connection that was just opened.
Blank == [n \in {Setting(tenancy.guc), Setting(Default.guc)} |-> NoTenant]

with_tenant_hooks(by) ==
    /\ outcome = "ok" /\ hooks = NoName
    /\ hooks' = GucOf(by) /\ set' = Blank /\ loc' = Blank
    /\ UNCHANGED <<built, lease, asked>>

\* RESET guc.  An error closes the connection, and the next one is new.
Cleared == IF Bare(hooks) = NoName THEN Blank ELSE [set EXCEPT ![Bare(hooks)] = NoTenant]

\* The connection is released, and acquired by a task of tenant b.
before_acquire(b) ==
    /\ hooks # NoName /\ asked = NoTenant
    /\ set' = IF b = NoTenant THEN Cleared ELSE [Cleared EXCEPT ![Setting(hooks)] = b]
    /\ lease' = b
    /\ UNCHANGED <<built, hooks, asked, loc>>

\* Wrong: the default name, whatever was configured.
begin_tenant_default(by, b) ==
    /\ hooks # NoName /\ asked = NoTenant
    /\ loc' = [loc EXCEPT ![Setting(Default.guc)] = b] /\ asked' = b
    /\ UNCHANGED <<built, hooks, lease, set>>

begin_tenant(by, b) ==
    /\ hooks # NoName /\ asked = NoTenant
    /\ loc' = [loc EXCEPT ![Setting(GucOf(by))] = b] /\ asked' = b
    /\ UNCHANGED <<built, hooks, lease, set>>

EndTx ==
    /\ asked # NoTenant /\ asked' = NoTenant /\ loc' = Blank
    /\ UNCHANGED <<built, hooks, lease, set>>

Next ==
    \/ \E n \in GucNames : guc(n)
    \/ \E n \in Names : schemas(<<n>>) \/ tenant_column(n) \/ policy_template(n)
    \/ \E ns \in {<<>>} \cup Names \X Names : schemas(ns)
    \/ \E f \in {"schema", "policy_name", "cast"}, n \in Names : Override(f, n)
    \/ \E by \in Helpers :
          with_tenant_hooks(by) \/ \E b \in Tenants : begin_tenant(by, b)
    \/ \E b \in Bindings : before_acquire(b)
    \/ EndTx
    \/ outcome # "ok" /\ UNCHANGED vars  \* the program is over

Spec == Init /\ [][Next]_vars

-----------------------------------------------------------------------------
Identifier == {n \in Seq(Characters) : validate_identifier(n)}
GucName == {n \in Seq(Characters) : validate_guc(n)}

TypeOK ==
    /\ tenancy \in [guc : GucName, schemas : Seq(Identifier) \ {<<>>},
                    tenant_column : Identifier]
    /\ template # NoTemplate =>
          template \in [schema : Identifier, table : Identifier, policy_name : Identifier,
                        cast : Identifier \cup {NoName}]
    /\ outcome \in {"ok", "rejected", "index"} /\ calls \in 0 .. MaxCalls
    /\ hooks \in {NoName, tenancy.guc, Default.guc}
    /\ lease \in Bindings /\ asked \in Bindings
    /\ hooks # NoName => {set, loc} \subseteq [DOMAIN Blank -> Bindings]

\* Unquoted, a name means itself, or is an error for a reserved word in it.
Pieces(s) == {s} \cup UNION {{Before(s, d), After(s, d)} : d \in Dots(s)}
Unambiguous(s) ==
    \/ Bare(s) = Fold(s)
    \/ Bare(s) = NoName /\ \E p \in Pieces(s) : Fold(p) \in Reserved

(* config.rs:13-17: names are validated at construction, so that a bad      *)
(* configuration is not a runtime concern.  What the builders accept is in  *)
(* quotes the name that the audit looks for, and without them (RESET, a     *)
(* cast) the one that set_config and the policy mean by it, unless a part   *)
(* is a reserved word; then RESET fails, and resets no other setting.  No   *)
(* later call finds an empty list.                                          *)
ValidatedOnce ==
    /\ outcome # "index"
    /\ Unambiguous(tenancy.guc)
    /\ \A n \in Range(tenancy.schemas) \cup {tenancy.tenant_column} : Quoted(n) = n
    /\ template # NoTemplate =>
          /\ \A f \in {"schema", "table", "policy_name"} :
                Quoted(template[f]) = template[f]
          /\ template.cast # NoName => Unambiguous(template.cast)

(* config.rs:21-23: the hooks, set_tenant, begin_tenant and the policy use  *)
(* one setting.  A query answers as the tenant that its transaction was     *)
(* begun for and, outside of one, as the tenant of the scope, whoever had   *)
(* the connection before, and also where RESET does not parse.              *)
AnswersAsAsked ==
    hooks # NoName =>
        LET guc_name == Setting(tenancy.guc)
        IN  (IF loc[guc_name] # NoTenant THEN loc[guc_name] ELSE set[guc_name])
                = IF asked # NoTenant THEN asked ELSE lease
==============================================================================
