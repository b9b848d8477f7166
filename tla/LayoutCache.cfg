CONSTANTS
  Html = {h1, h2}
  NoHtml = NoHtml
  Widths = {700, 750, 800, 900}
  Heights = {600}
  Scales = {1}
  DefaultViewport <- MCDefaultViewport
  Absent = Absent
SPECIFICATION Spec
INVARIANTS TypeOK Fresh TwoOutputsShareTheCache
