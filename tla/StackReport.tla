----------------------------- MODULE StackReport -----------------------------
(***************************************************************************)
(* funcslower's stack capture and stack output: the -U/-K options, the     *)
(* USER_STACK_GET / KERNEL_STACK_GET substitution, the two get_stackid     *)
(* calls of trace_return on stack_traces (flags 0 and BPF_F_USER_STACK, no *)
(* reuse), and print_stack, which walks the ids when the record is printed *)
(* and renders them folded or as a tree.                                   *)
(*                                                                         *)
(* Frames and symbol names are abstracted: a walked stack is one token     *)
(* [kind, stack] naming the side and the stack whose addresses are listed, *)
(* whatever their order (folded output reverses them).  The other tokens   *)
(* are the placeholders, the "-"/"--" delimiter and the task name line.    *)
(***************************************************************************)
EXTENDS StackTraceMap, Sequences

CONSTANTS
  UserStacks,    \* user stacks a traced call can return in
  KernelStacks,  \* kernel stacks a traced call can return in
  ArgChoices,    \* the combinations of -U, -K and -f the user may pass
  MaxRecords     \* bound on the records submitted

ASSUME StackReportAssumption ==
  /\ UserStacks \cup KernelStacks \subseteq Stacks
  /\ ArgChoices \subseteq [user : BOOLEAN, kernel : BOOLEAN, folded : BOOLEAN]
  /\ ArgChoices # {}
  /\ MaxRecords \in Nat

VARIABLES
  opts,      \* args.user_stack, args.kernel_stack, args.folded
  stackmap,  \* stack_traces
  buf,       \* records submitted and not yet printed
  out        \* [rec, lines] for every record print_event has printed

vars == <<opts, stackmap, buf, out>>

\* what a stack id field can hold: a bucket, -errno of get_stackid, the -1
\* substituted for a replaced get, or 0 when the field is not compiled in
StackIds == Buckets \cup {-EFAULT, -EEXIST, -ENOMEM, -1, 0}

\* the sampled stacks and the stack ids of a struct data_t
Rec == [us : UserStacks \cup {NoStack}, ks : KernelStacks \cup {NoStack},
        uid : StackIds, kid : StackIds]

Token == [kind : {"name", "user", "kernel", "missed_user", "missed_kernel",
                  "delim"}, stack : Stacks \cup {NoStack}]

TypeOK ==
  /\ opts \in ArgChoices
  /\ stackmap \in [Buckets -> Stacks \cup {NoStack}]
  /\ buf \in Seq(Rec)
  /\ out \in Seq([rec : Rec, lines : Seq(Token)])

\* user_stack_get and kernel_stack_get after the "handle stack args" block:
\* -U replaces the kernel get by -1, else -K replaces the user get by -1.
UserGetCompiled(o) == o.user \/ ~o.kernel
KernelGetCompiled(o) == ~o.user

\* Variant of Capture that returns the errno of a missing stack unnegated.
CaptureRawErrno(map, s, compiled) ==
  IF ~compiled THEN [id |-> -1, map |-> map]
  ELSE IF s = NoStack THEN [id |-> EFAULT, map |-> map]
  ELSE GetStackId(map, s, FALSE)

\* data.x_stack_id = X_STACK_GET: get_stackid, -EFAULT when the context
\* has no such stack, or the literal -1 when the get was replaced.
Capture(map, s, compiled) ==
  IF ~compiled THEN [id |-> -1, map |-> map]
  ELSE IF s = NoStack THEN [id |-> -EFAULT, map |-> map]
  ELSE GetStackId(map, s, FALSE)

Init ==
  /\ opts \in ArgChoices
  /\ stackmap = EmptyStackMap
  /\ buf = <<>>
  /\ out = <<>>

\* A slow trace_return in stacks us and ks fills the stack ids of data
\* (under #ifdef USER_STACKS, then KERNEL_STACKS) and submits it.  The
\* kernel_ip it also stores is never read by print_stack and is left out.
Submit(us, ks) ==
  LET u == IF opts.user THEN Capture(stackmap, us, UserGetCompiled(opts))
           ELSE [id |-> 0, map |-> stackmap]
      k == IF opts.kernel THEN Capture(u.map, ks, KernelGetCompiled(opts))
           ELSE [id |-> 0, map |-> u.map]
  IN
  /\ Len(buf) + Len(out) < MaxRecords
  /\ stackmap' = k.map
  /\ buf' = Append(buf, [us |-> us, ks |-> ks, uid |-> u.id, kid |-> k.id])
  /\ UNCHANGED <<opts, out>>

\* Variant of StackIdErr that treats -EFAULT as a failure too.
StackIdErrAnyNegative(id) == id < 0

\* stack_id_err: a negative id other than -EFAULT
StackIdErr(id) == id < 0 /\ id # -EFAULT

\* need_delimiter = (args.kernel_stack and args.user_stack)
NeedDelimiter == opts.user /\ opts.kernel

Tok(kind) == [kind |-> kind, stack |-> NoStack]

\* stack_traces.walk(id), empty when the side is off or the id negative
Frames(kind, on, id) ==
  IF on /\ id >= 0 /\ stackmap[id] # NoStack
  THEN <<[kind |-> kind, stack |-> stackmap[id]]>> ELSE <<>>

UserPart(r) ==
  IF StackIdErr(r.uid) THEN <<Tok("missed_user")>>
  ELSE Frames("user", opts.user, r.uid)

KernelPart(r) ==
  IF StackIdErr(r.kid) THEN <<Tok("missed_kernel")>>
  ELSE Frames("kernel", opts.kernel, r.kid)

Delimiter(r) ==
  IF NeedDelimiter /\ r.kid >= 0 /\ r.uid >= 0 THEN <<Tok("delim")>> ELSE <<>>

\* print_stack, folded: name;user frames;-;kernel frames
FoldedLines(r) ==
  <<Tok("name")>>
  \o (IF opts.user THEN UserPart(r) ELSE <<>>)
  \o (IF opts.kernel THEN Delimiter(r) \o KernelPart(r) ELSE <<>>)

\* aksym, which the tree output prints every kernel frame with, reads
\* args.annotations, an option funcslower's parser does not define: the
\* first kernel frame raises AttributeError and print_event ends there.
\* (bcc's perf callback re-raises it, ctypes reports it, polling goes on.)
AksymRaises(r) == ~opts.user /\ Frames("kernel", opts.kernel, r.kid) # <<>>

\* print_stack, default: kernel frames unless -U, then "--" and user frames
\* unless -K, then the task name line; nothing once aksym has raised
TreeLines(r) ==
  IF AksymRaises(r) THEN <<>>
  ELSE (IF ~opts.user THEN KernelPart(r) ELSE <<>>)
       \o (IF ~opts.kernel THEN Delimiter(r) \o UserPart(r) ELSE <<>>)
       \o <<Tok("name")>>

\* perf_buffer_poll hands the oldest record to print_event, which calls
\* print_stack under -U or -K.
PrintEvent ==
  /\ buf # <<>>
  /\ opts.user \/ opts.kernel
  /\ out' = Append(out, [rec |-> Head(buf),
                         lines |-> IF opts.folded THEN FoldedLines(Head(buf))
                                   ELSE TreeLines(Head(buf))])
  /\ buf' = Tail(buf)
  /\ UNCHANGED <<opts, stackmap>>

\* print_event without stack options prints only the latency line.
PrintLatencyOnly ==
  /\ buf # <<>>
  /\ ~opts.user /\ ~opts.kernel
  /\ buf' = Tail(buf)
  /\ UNCHANGED <<opts, stackmap, out>>

\* Every record submitted and printed.
Finished ==
  /\ Len(out) = MaxRecords
  /\ buf = <<>>
  /\ UNCHANGED vars

Next ==
  \/ \E us \in UserStacks \cup {NoStack}, ks \in KernelStacks \cup {NoStack} :
       Submit(us, ks)
  \/ PrintEvent
  \/ PrintLatencyOnly
  \/ Finished

Spec == Init /\ [][Next]_vars
-----------------------------------------------------------------------------
Shows(l, kind, s) == \E i \in DOMAIN l : l[i].kind = kind /\ l[i].stack = s

ShowsKind(l, kind) == \E i \in DOMAIN l : l[i].kind = kind

\* The stacks printed are the stacks requested (the spec's stack capture
\* scope user/kernel/both): for each side asked for by -U or -K whose stack
\* existed when the call returned, print_stack shows that stack or the
\* side's placeholder; a side not asked for is not shown; and a
\* placeholder stands only for a get_stackid that failed (-EEXIST or
\* -ENOMEM), never for a stack that was not captured.
ShownAsRequested ==
  \A i \in DOMAIN out :
    LET r == out[i].rec
        l == out[i].lines
        side == [user |-> [on |-> opts.user, s |-> r.us, id |-> r.uid,
                           missed |-> "missed_user"],
                 kernel |-> [on |-> opts.kernel, s |-> r.ks, id |-> r.kid,
                             missed |-> "missed_kernel"]]
    IN \A k \in {"user", "kernel"} :
         /\ side[k].on /\ side[k].s # NoStack =>
              Shows(l, k, side[k].s) \/ ShowsKind(l, side[k].missed)
         /\ ~side[k].on => ~ShowsKind(l, k) /\ ~ShowsKind(l, side[k].missed)
         /\ ShowsKind(l, side[k].missed) => side[k].id \in {-EEXIST, -ENOMEM}
=============================================================================
