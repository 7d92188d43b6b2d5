----------------------------- MODULE MCProfiles -----------------------------
(* One device of one user, two administrators, two rows to write. *)
EXTENDS Profiles

Row(columns, options) == [columns |-> columns, options |-> options, there |-> TRUE]
None == [n \in {} |-> ""]

Plain == Row([locationCallsign |-> "A"], [coord |-> "DD"])
Rich == Row([locationCallsign |-> "B"], [locationCallsign |-> "C", misspelt |-> "x"])

MCRows == {Plain, Rich}
MCOptions == {"locationCallsign", "coord", "misspelt", "deviceProfileEnableOnConnect"}
MCKnown == MCOptions \ {"misspelt"}

Table(rows) == [k \in Keys |-> IF k \in DOMAIN rows THEN rows[k] ELSE NoRow]
MCFirst == {Table([k \in {} |-> NoRow]),
            Table([k \in {<<"*", "*">>, <<"l", "*">>} |-> IF k[1] = "*" THEN Rich ELSE Plain]),
            Table([k \in {"*", "l"} \X {"*", "u"} |-> IF k[2] = "*" THEN Plain ELSE Rich])}
=============================================================================
