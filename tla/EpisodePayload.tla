--------------------------- MODULE EpisodePayload ---------------------------
(***************************************************************************)
(* transport/nccl/payload.py: an episode is split into a flat sequence of    *)
(* tensors, which NCCL carries, and a manifest with references to them,       *)
(* which the store carries, and is put together again on the policy rank;     *)
(* what the policy rank finds in it, over NCCL and over disk.                 *)
(*                                                                           *)
(* A value is a tensor, a leaf (a scalar or a string), None, or a container: *)
(* a tuple, list, dict, numpy array or dataclass with its items in order.     *)
(***************************************************************************)
EXTENDS Naturals, Sequences, SequencesExt

Tensor(data, dtype, size) == [kind |-> "tensor", data |-> data, dtype |-> dtype, size |-> size]
Leaf(data)         == [kind |-> "leaf", data |-> data]
Nothing            == [kind |-> "none"]
Item(key, value)   == [key |-> key, value |-> value]
Container(kind, items) == [kind |-> kind, type |-> "", items |-> items]
Data(type, items)  == [kind |-> "dataclass", type |-> type, items |-> items]

(* The annotations of the dataclasses: a field is Optional, a tuple or a    *)
(* mapping of something, a dataclass, or a primitive.                        *)
Untyped       == [hint |-> "any"]
Primitive     == [hint |-> "leaf"]
Class(name)   == [hint |-> "class", name |-> name]
Optional(t)   == [hint |-> "optional", of |-> t]
Tuples(t)     == [hint |-> "tuple", of |-> t]
MappingOf(t)  == [hint |-> "mapping", of |-> t]

PolicyOutputFields == [chosen_xyz |-> Primitive, replay_data |-> Optional(Class("PolicyReplayData")),
                       model_extra |-> Optional(MappingOf(Untyped))]
PolicyReplayDataFields == [action_selection |-> Class("ActionSelection"),
                           old_logprob |-> Optional(Primitive), payload |-> MappingOf(Untyped)]
EpisodeOutputFields == [session_uuid |-> Primitive, policy_outputs |-> Tuples(Class("PolicyOutput")),
                        reward |-> Optional(Class("RewardResult"))]
Fields ==
  [EpisodeOutput    |-> EpisodeOutputFields,
   PolicyOutput     |-> PolicyOutputFields,
   PolicyReplayData |-> PolicyReplayDataFields,
   ActionSelection  |-> [set_ix |-> Primitive, sample_ix |-> Primitive],
   RewardResult     |-> [total |-> Primitive, report_metrics |-> MappingOf(Primitive)]]

Reserved == {"__tensor_key__", "__dataclass_type__", "__bool_tensor__"}

(* _pack, with the tensors so far.  Bool tensors travel as uint8.           *)
RECURSIVE Pack(_, _)

Ref(t, key) == [kind |-> "ref", key |-> key, bool |-> t.dtype = "bool"]
Wire(t)     == [t EXCEPT !.dtype = IF @ = "bool" THEN "uint8" ELSE @]

PackItems(items, tensors) ==
  FoldLeft(LAMBDA acc, item :
             LET packed == Pack(item.value, acc.tensors)
             IN  [items   |-> Append(acc.items, Item(item.key, packed.manifest)),
                  tensors |-> packed.tensors],
           [items |-> <<>>, tensors |-> tensors], items)

(* A dataclass becomes a dict that bears its type, what is like a list a    *)
(* list.                                                                     *)
Packed(v, items) ==
  CASE v.kind = "dataclass" -> [v EXCEPT !.kind = "dict", !.items = items]
    [] v.kind = "dict"      -> [v EXCEPT !.items = items]
    [] OTHER                -> Container("list", items)

Pack(v, tensors) ==
  CASE v.kind = "tensor" -> [manifest |-> Ref(v, Len(tensors) + 1), tensors |-> Append(tensors, Wire(v))]
    [] v.kind \in {"leaf", "none"} -> [manifest |-> v, tensors |-> tensors]
    [] OTHER -> LET packed == PackItems(v.items, tensors)
                IN  [manifest |-> Packed(v, packed.items), tensors |-> packed.tensors]

(* What pack raises on: an empty tensor, a dict with a key of the manifest. *)
RECURSIVE Packable(_)
Packable(v) ==
  /\ v.kind = "tensor" => v.size > 0
  /\ v.kind \notin {"tensor", "leaf", "none"} => \A i \in DOMAIN v.items :
       /\ v.kind = "dict" => v.items[i].key \notin Reserved
       /\ Packable(v.items[i].value)

(* _unpack, by the annotation of the slot; _resolve_tensor_refs where there *)
(* is none, which relies on the type a dict bears.                           *)
RECURSIVE Unpack(_, _, _), Resolve(_, _)

ResolveLeaf(m, tensors) ==
  LET t == tensors[m.key] IN IF m.bool THEN [t EXCEPT !.dtype = "bool"] ELSE t

Typed(m, of, tensors) ==
  [i \in DOMAIN m.items |-> Item(m.items[i].key, Unpack(m.items[i].value, of, tensors))]

Reconstruct(m, name, tensors) ==
  Data(name, [i \in DOMAIN m.items |->
    Item(m.items[i].key, Unpack(m.items[i].value, Fields[name][m.items[i].key], tensors))])

Resolve(m, tensors) ==
  CASE m.kind = "ref" -> ResolveLeaf(m, tensors)
    [] m.kind = "dict" /\ m.type # "" -> Reconstruct(m, m.type, tensors)
    [] m.kind \in {"dict", "list"} /\ m.type = "" ->
         [m EXCEPT !.items = [i \in DOMAIN @ |-> Item(@[i].key, Resolve(@[i].value, tensors))]]
    [] OTHER -> m

Unpack(m, t, tensors) ==
  CASE m.kind = "ref"       -> ResolveLeaf(m, tensors)
    [] m.kind # "ref" /\ t.hint = "optional" -> IF m = Nothing THEN Nothing ELSE Unpack(m, t.of, tensors)
    [] m.kind # "ref" /\ t.hint = "tuple"    -> Container("tuple", Typed(m, t.of, tensors))
    [] m.kind # "ref" /\ t.hint = "mapping"  ->
         IF t.of = Untyped THEN [m EXCEPT !.items = [i \in DOMAIN @ |-> Item(@[i].key, Resolve(@[i].value, tensors))]]
         ELSE Container("dict", Typed(m, t.of, tensors))
    [] m.kind # "ref" /\ t.hint = "class"    -> Reconstruct(m, t.name, tensors)
    [] m.kind # "ref" /\ t.hint = "any"      -> Resolve(m, tensors)
    [] m.kind # "ref" /\ t.hint = "leaf"     -> m

RoundTrip(episode) ==
  LET payload == Pack(episode, <<>>) IN Unpack(payload.manifest, Class("EpisodeOutput"), payload.tensors)

(* What comes out, by definition: the episode itself, but for numpy arrays, *)
(* and for tuples where nothing says that they are tuples: those are lists.  *)
RECURSIVE Plain(_, _)
Plain(v, known) ==
  IF v.kind \in {"tensor", "leaf", "none"} THEN v
  ELSE [v EXCEPT !.kind = IF @ = "array" \/ (@ = "tuple" /\ ~ known) THEN "list" ELSE @,
                 !.items = [i \in DOMAIN @ |-> Item(@[i].key, Plain(@[i].value, v.kind = "dataclass"))]]

----------------------------------------------------------------------------
(* An episode on its way                                                    *)

(* Episode e of case c as the policy recorded it; the kinds of its outputs  *)
(* are those of TrainingState.                                              *)
Outcomes(c, e) == c.episodes[e].outputs
Shaped(e, i, name, dtype, size) == Item(name, Tensor(<<e, i, name>>, dtype, size))
Named(name, value) == Item(name, Leaf(<<0, 0, value>>))

ModelInputs(e, i, output) ==
  Container("dict",
    <<Shaped(e, i, "tokens", "int64", IF output = "hollow" THEN 0 ELSE 1), Shaped(e, i, "mask", "bool", 1),
      Item("camera", Container("dict", <<Shaped(e, i, "frames", "float32", 1)>>
                      \o IF output = "nested" THEN <<Named("prompt", "1")>> ELSE <<>>)),
      Item("anchors", Container("tuple", <<Named("", "a"), Item("", Container("array", <<Named("", "b")>>))>>))>>
    \o IF output = "odd" THEN <<Shaped(e, i, "expert", "float32", 1)>> ELSE <<>>)

Choice == Data("ActionSelection", <<Named("set_ix", "0"), Named("sample_ix", "0")>>)

ReplayData(e, i, output) ==
  IF output = "none" THEN Nothing
  ELSE Data("PolicyReplayData",
         <<Item("action_selection", Choice),
           Item("old_logprob", Tensor(<<e, i, IF output = "bad" THEN "nan" ELSE "finite">>, "float32", 1)),
           Item("payload", ModelInputs(e, i, output))>>)

Recorded(c, e) ==
  Data("EpisodeOutput",
    <<Named("session_uuid", "s"),
      Item("policy_outputs", Container("tuple",
        [i \in DOMAIN Outcomes(c, e) |-> Item("", Data("PolicyOutput",
           <<Shaped(e, i, "chosen_xyz", "float32", 1),
             Item("replay_data", ReplayData(e, i, Outcomes(c, e)[i])),
             Item("model_extra", Container("dict", <<Item("choice", Choice)>>))>>))])),
      Item("reward", Data("RewardResult", <<Named("total", "r"), Item("report_metrics", Container("dict", <<>>))>>))>>)

(* As it arrives on the policy rank: torch.save keeps it, NCCL packs it.    *)
Shippable(c, e) == c.nccl => Packable(Recorded(c, e))
Delivered(c, e) == IF c.nccl THEN RoundTrip(Recorded(c, e)) ELSE Recorded(c, e)
Promised(c, e)  == IF c.nccl THEN Plain(Recorded(c, e), FALSE) ELSE Recorded(c, e)

(* What get_policy_input finds in an output.                                *)
Field(v, key) == v.items[CHOOSE i \in DOMAIN v.items : v.items[i].key = key].value
KeysOf(v)     == {v.items[i].key : i \in DOMAIN v.items}

KindOf(output) ==
  LET replay  == Field(output, "replay_data")
      payload == Field(replay, "payload") IN
  CASE replay = Nothing -> "none"
    [] replay # Nothing /\ Field(replay, "old_logprob").data[3] = "nan" -> "bad"
    [] OTHER -> IF "expert" \in KeysOf(payload) THEN "odd"
                ELSE IF "prompt" \in KeysOf(Field(payload, "camera")) THEN "nested" ELSE "good"

KindsRead(c, e) ==
  LET outputs == Field(Delivered(c, e), "policy_outputs")
  IN  [i \in DOMAIN outputs.items |-> KindOf(outputs.items[i].value)]
=============================================================================
