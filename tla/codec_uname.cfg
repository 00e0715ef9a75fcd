CONSTANTS
    Tags = {0, 65535}
    Fids = {0, 7}
    Fail = Fail
    None = None
    Strs <- MCStrs
    Qids <- MCQids
SPECIFICATION Spec
INVARIANT RoundTrip
