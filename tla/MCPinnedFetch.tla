--------------------------- MODULE MCPinnedFetch ---------------------------
(***************************************************************************)
(* PinnedFetch on small instances: every form and class of address, as a   *)
(* literal and as the answer of a name that changes once, alone or behind  *)
(* a public one; a cap of two bytes, and bodies around it.                 *)
(***************************************************************************)
EXTENDS PinnedFetch

(* A slice of no known length leads nowhere: one of them is enough.        *)
MCAddresses == { a \in Addresses : a.form = "bytes" => a.class = "public" }

URL(defect, host, port, scheme) ==
    [defect |-> defect, host |-> host, port |-> port, scheme |-> scheme]
Name == [kind |-> "name"]
MCURLs ==
    { URL("malformed", Name, None, "https"), URL("none", Name, None, "https"),
      URL("none", [kind |-> "local"], 8080, "http") }
    \cup { URL("none", [kind |-> "literal", ip |-> a], None, "http") :
              a \in { b \in MCAddresses : b.form # "bytes" } }

Public4 == [form |-> "4", class |-> "public"]
MCRecords ==
    {<<>>} \cup { <<a>> : a \in MCAddresses } \cup { <<Public4, a>> : a \in MCAddresses }

MCBodies == { [size |-> n, json |-> j] : n \in 0 .. 4, j \in BOOLEAN }

MCAllowPrivate == [ crl |-> {FALSE}, proxy |-> BOOLEAN ]
MCFetchTimeout == [ crl |-> 2, proxy |-> 3 ]
=============================================================================
