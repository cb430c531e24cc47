--------------------------- MODULE UnsafeObjects ---------------------------
(***************************************************************************)
(* What the heap tracker promises of the objects that unsafe code has      *)
(* accessed: each is counted when it is accessed first, with the size that *)
(* it has then.  Whoever accesses memory is told, at some moment between   *)
(* the beginning and the end of the hook, which object that is, if any,    *)
(* and what it has been told is still so when the object is counted.       *)
(***************************************************************************)
EXTENDS Integers

CONSTANTS Threads, Addrs, NotHeap, Sizes, Classes

VARIABLES
    objects,    \* size of each object, by address
    unsafe,     \* objects that unsafe code has accessed
    counted,    \* how many have been, and their bytes and classes
    asked,      \* per thread: the address it accesses, if any, as a set
    known       \* per thread: the objects at that address, once it has been told

vars == <<objects, unsafe, counted, asked, known>>

Within(base, size) == base .. base + size - 1
ObjectsAt(addr) == {b \in DOMAIN objects : addr \in Within(b, objects[b])}

\* The documented classes: "<= 1KB", "> 1KB && <= 2KB", ..., and the last without a bound.
InClass(size, c) == (c > 0 => size > 2^(c - 1)) /\ (c + 1 \in Classes => size <= 2^c)

Init ==
    /\ objects = << >>
    /\ unsafe = {}
    /\ counted = [objects |-> 0, bytes |-> 0, sizes |-> [c \in Classes |-> 0]]
    /\ asked = [t \in Threads |-> {}]
    /\ known = [t \in Threads |-> {}]

\* No object but b is in the range, and nobody accesses b.
Available(base, size, b) ==
    /\ Within(base, size) \subseteq Addrs \ NotHeap
    /\ \A addr \in Within(base, size) : ObjectsAt(addr) \subseteq {b}
Unused(b) == \A t \in Threads : \A addr \in asked[t] : b \notin ObjectsAt(addr)

\* The objects with b replaced by one at base, or by none.
Replaced(b, base, size) ==
    [x \in (DOMAIN objects \ {b}) \cup {base} |-> IF x = base THEN size ELSE objects[x]]
Without(b) == [x \in DOMAIN objects \ {b} |-> objects[x]]

Allocate(base, size) ==
    /\ base \notin DOMAIN objects
    /\ objects' = Replaced(base, base, size)
    /\ Available(base, size, base)
    /\ UNCHANGED <<unsafe, counted, asked, known>>

\* An object that moves is another one.
Reallocate(b, base, size) ==
    /\ objects' = Replaced(b, base, size)
    /\ unsafe' = unsafe \ ({b} \ {base})
    /\ Unused(b) /\ Available(base, size, b)
    /\ UNCHANGED <<counted, asked, known>>

Free(b) ==
    /\ objects' = Without(b)
    /\ unsafe' = unsafe \ {b}
    /\ Unused(b)
    /\ UNCHANGED <<counted, asked, known>>

Access(t, addr) ==
    /\ asked[t] = {} /\ asked' = [asked EXCEPT ![t] = {addr}]
    /\ addr \in NotHeap \/ ObjectsAt(addr) # {}
    /\ UNCHANGED <<objects, unsafe, counted, known>>

Tell(t, addr) ==
    /\ addr \in asked[t] /\ known[t] = {}
    /\ known' = [known EXCEPT ![t] = {ObjectsAt(addr)}]
    /\ UNCHANGED <<objects, unsafe, counted, asked>>

Return(t) ==
    /\ \E addr \in asked[t] : known[t] = {ObjectsAt(addr)}
    /\ asked' = [asked EXCEPT ![t] = {}]
    /\ known' = [known EXCEPT ![t] = {}]

\* The access of safe code, and that of unsafe code.
AccessedSafely(t) == Return(t) /\ UNCHANGED <<objects, unsafe, counted>>

CountFirst(size) ==
    [objects |-> counted.objects + 1, bytes |-> counted.bytes + size,
     sizes |-> [c \in Classes |-> IF InClass(size, c) THEN counted.sizes[c] + 1
                                  ELSE counted.sizes[c]]]

Accessed(t, b) ==
    /\ known[t] = {{b}} /\ Return(t)
    /\ unsafe' = unsafe \cup {b}
    /\ counted' = IF b \in unsafe THEN counted ELSE CountFirst(objects[b])
    /\ UNCHANGED objects

Allocator ==
    \/ \E base \in Addrs, size \in Sizes : Allocate(base, size)
    \/ \E b \in DOMAIN objects : Free(b)
    \/ \E b \in DOMAIN objects, base \in Addrs, size \in Sizes : Reallocate(b, base, size)

Hooks(t) ==
    \/ \E addr \in Addrs : Access(t, addr)
    \/ \E addr \in asked[t] : Tell(t, addr)
    \/ \E b \in DOMAIN objects : Accessed(t, b)
    \/ AccessedSafely(t)

\* A step of the allocator is seen in the objects and one of a hook in what has been
\* asked or told: said first, this spares the checker to look for either elsewhere.
Next ==
    \/ objects' # objects /\ Allocator
    \/ <<asked, known>>' # <<asked, known>> /\ \E t \in Threads : Hooks(t)

Spec == Init /\ [][Next]_vars
=============================================================================
