--------------------------- MODULE TenantIsolation ---------------------------
(***************************************************************************)
(* What the pool hooks, the task scopes and `begin_tenant` promise together *)
(* to the program that uses them, with no pool, no hook and no session      *)
(* setting in sight.                                                        *)
(*                                                                         *)
(* Every task runs in a stack of tenant scopes.  A connection handed to a   *)
(* task answers its queries as a tenant (or as none); view[c] is the stack  *)
(* of those tenants, one for the connection and one for each transaction    *)
(* and savepoint open on it, innermost last.  A free connection has none.   *)
(***************************************************************************)
EXTENDS Naturals, Sequences

CONSTANTS Tasks, Conns, Tenants, NoTenant

VARIABLES scope,    \* scope[t]: the tenants task t is scoped to, innermost last
          request,  \* request[t]: what task t is asking for
          view      \* view[c]: the tenants that c answers as, innermost last

vars == <<scope, request, view>>

Bindings == Tenants \cup {NoTenant}
Last(q) == q[Len(q)]
Current(t) == IF scope[t] = <<>> THEN NoTenant ELSE Last(scope[t])

\* A connection, a transaction, or a transaction bound to a tenant.
Requests == [via : {"conn"}, tenant : {NoTenant}] \cup [via : {"tx"}, tenant : Bindings]
NoRequest == [via |-> "conn", tenant |-> NoTenant]

Init ==
    /\ scope = [t \in Tasks |-> <<>>]
    /\ request = [t \in Tasks |-> NoRequest]
    /\ view = [c \in Conns |-> <<>>]

-----------------------------------------------------------------------------
\* A task starts in, enters or leaves a scope; a connection never notices.
ChangeScope(t) ==
    /\ \/ \E b \in Tenants : scope' = [scope EXCEPT ![t] = Append(scope[t], b)]
       \/ /\ scope[t] # <<>>
          /\ scope' = [scope EXCEPT ![t] = SubSeq(scope[t], 1, Len(scope[t]) - 1)]
    /\ UNCHANGED <<request, view>>

\* A task asks for something, or gives up asking.
Ask(t) ==
    /\ \E r \in Requests : request' = [request EXCEPT ![t] = r]
    /\ UNCHANGED <<scope, view>>

\* What a connection answers as when it is handed to t as it asked: the one
\* moment at which the scope of t matters.
Answer(t) ==
    IF request[t].via = "conn" THEN <<Current(t)>>
    ELSE IF request[t].tenant = NoTenant THEN <<Current(t), Current(t)>>
    ELSE <<Current(t), request[t].tenant>>

HandOut(t, c) ==
    /\ view[c] = <<>>
    /\ view' = [view EXCEPT ![c] = Answer(t)]
    /\ request' = [request EXCEPT ![t] = NoRequest]
    /\ UNCHANGED scope

\* A transaction or a savepoint starts from what encloses it.
Enter(c) ==
    /\ view[c] # <<>>
    /\ view' = [view EXCEPT ![c] = Append(view[c], Last(view[c]))]
    /\ UNCHANGED <<scope, request>>

\* Only inside a transaction can the tenant be chosen anew.
Choose(c) ==
    /\ Len(view[c]) > 1
    /\ \E b \in Tenants :
          view' = [view EXCEPT ![c] = [view[c] EXCEPT ![Len(view[c])] = b]]
    /\ UNCHANGED <<scope, request>>

\* The transaction ends, or the savepoint is undone: its tenant is forgotten.
Leave(c) ==
    /\ Len(view[c]) > 1
    /\ view' = [view EXCEPT ![c] = SubSeq(view[c], 1, Len(view[c]) - 1)]
    /\ UNCHANGED <<scope, request>>

\* A savepoint is released: its tenant becomes that of what encloses it.
Merge(c) ==
    /\ Len(view[c]) > 2
    /\ view' = [view EXCEPT
          ![c] = [SubSeq(view[c], 1, Len(view[c]) - 1)
                    EXCEPT ![Len(view[c]) - 1] = Last(view[c])]]
    /\ UNCHANGED <<scope, request>>

\* A connection goes back to the pool.
GiveBack(c) ==
    /\ view' = [view EXCEPT ![c] = <<>>]
    /\ UNCHANGED <<scope, request>>

\* A task is over, and everything it held goes back.
End(t, S) ==
    /\ scope' = [scope EXCEPT ![t] = <<>>]
    /\ request' = [request EXCEPT ![t] = NoRequest]
    /\ view' = [c \in Conns |-> IF c \in S THEN <<>> ELSE view[c]]

Next ==
    \/ \E t \in Tasks : ChangeScope(t) \/ Ask(t)
    \/ \E t \in Tasks, c \in Conns : HandOut(t, c)
    \/ \E c \in Conns :
          Enter(c) \/ Choose(c) \/ Leave(c) \/ Merge(c) \/ GiveBack(c)
    \/ \E t \in Tasks, S \in SUBSET Conns : End(t, S)

Spec == Init /\ [][Next]_vars
==============================================================================
