------------------------------ MODULE LogHandler ------------------------------
(***************************************************************************)
(* The slog handler that stamps every record with the ids of its span and  *)
(* the service name (telemetry-web/logging).                               *)
(*                                                                         *)
(* A slog.Handler is the sequence of WithGroup and WithAttrs calls made on *)
(* it; what it writes is a set of attributes, each under the path of the   *)
(* groups that were open when it was added (external: log/slog).           *)
(***************************************************************************)
EXTENDS SequencesExt

Group(name) == [group |-> name, attrs |-> {}]
Attrs(attrs) == [group |-> "", attrs |-> attrs]

\* The path of the groups open after these calls.
Under(path, d) == IF d.group = "" THEN path ELSE Append(path, d.group)
OpenGroups(handler) == FoldLeft(Under, <<>>, handler)

\* The attributes that were added with the calls.
Added(handler) ==
    UNION {{OpenGroups(SubSeq(handler, 1, i - 1))} \X handler[i].attrs : i \in DOMAIN handler}

\* What a slog.Handler writes for a record of these attributes.
Write(handler, attrs) == ({OpenGroups(handler)} \X attrs) \cup Added(handler)

NewLogHandler(base) == [base |-> base, applied |-> base, goas |-> <<>>, grouped |-> FALSE]

\* (slip) grouped is that of the last call alone.
WithLast(h, d) ==
    [h EXCEPT !.applied = Append(@, d), !.goas = Append(@, d), !.grouped = d.group # ""]

With(h, d) ==
    [h EXCEPT !.applied = Append(@, d), !.goas = Append(@, d), !.grouped = @ \/ d.group # ""]

\* WithAttrs and WithGroup: nothing to add gives the same handler back.
Derive(h, d) == IF d = Attrs({}) THEN h ELSE With(h, d)

\* The handler of a logger the consumer derived by these calls.
Derived(chain) == FoldLeft(Derive, NewLogHandler(<<>>), chain)

\* stamps: of the span in the context, if there is one, and of the service, if it has a
\* name.
Stamps(traced, service, nobody) ==
    (IF traced THEN {"trace_id", "span_id"} ELSE {})
        \cup IF service = nobody THEN {} ELSE {service}

\* Handle: the stamps go with the record, but under open groups beneath the replay of
\* all the calls.
Handle(h, stamps, attrs) ==
    CASE stamps = {} -> Write(h.applied, attrs)
      [] stamps # {} /\ ~h.grouped -> Write(h.applied, attrs \cup stamps)
      [] stamps # {} /\ h.grouped -> Write(Append(h.base, Attrs(stamps)) \o h.goas, attrs)
=============================================================================
