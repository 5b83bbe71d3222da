\* Two first cloud calls.
CONSTANTS
    Calls = {c1, c2}
    Called = {"take_screenshot"}
    None = None
SPECIFICATION Spec
INVARIANT NoUseAfterFree
