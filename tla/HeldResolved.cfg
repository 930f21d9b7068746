CONSTANTS
    Scopes = {"do_not_email", "do_not_process"}
    Tracked = {v1, v2}
    Contacts = {k1}
    Jobs = {j1, j2}
    Uploads = {u1}
    MaxImported = 1
SPECIFICATION OptOutSpec
INVARIANT HeldNeverResolved
