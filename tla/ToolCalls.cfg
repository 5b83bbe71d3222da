\* Two calls at the same time, on either backend; tap stands for the tools like it.
CONSTANTS
    Calls = {c1, c2}
    Called = {"tap", "launch_app", "adb_shell", "take_screenshot", "text_input", "autoinstall_app", "terminate"}
    None = None
SPECIFICATION FairSpec
INVARIANT InstallTruthful
INVARIANT AnswerIsTrue
INVARIANT NoLeftover
PROPERTY CallsAreAnswered
