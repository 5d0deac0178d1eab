SPECIFICATION Spec
CONSTANTS
    s1 = s1
    s2 = s2
    w1 = w1
    w2 = w2
    w3 = w3
    h1 = h1
    h2 = h2
    Emails = {admin, anna, bert}
    AdminEmail = admin
    Subjects = {s1, s2}
    Workspaces = {w1, w2, w3}
    Handlers = {h1, h2}
    MaxViews = 1
    None = None
INVARIANTS AnswersStayTrue AdmittedStayAdmitted DisclosureIsRecorded
PROPERTIES BindingsStick
SYMMETRY Alike
CHECK_DEADLOCK FALSE
